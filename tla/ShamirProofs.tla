---------------------------- MODULE ShamirProofs ----------------------------
(***************************************************************************)
(* Proofs about Shamir, for any prime P below 256 and any quorum: k shares *)
(* or more give a byte below P back, and k - 1 of them tell nothing of it. *)
(*                                                                         *)
(* The code's arithmetic is followed to congruences modulo P: its folds    *)
(* are sums and products (Horner's rule for a share), its inverse is one   *)
(* by Fermat's theorem.  Interpolation then rests on divided differences:  *)
(* the one of a polynomial over more points than it has coefficients is 0, *)
(* and Combine is that statement for the shares and the point 0.           *)
(***************************************************************************)
EXTENDS Shamir, FiniteSetTheorems, WellFoundedInduction, TLAPS

-----------------------------------------------------------------------------
(***************************************************************************)
(* Numbers modulo P.                                                       *)
(***************************************************************************)
Field == 0..(P - 1)

\* A byte, of any value.
Octet == 0..255

\* The same element of the field.
Cong(a, b) == \E k \in Int : a = b + k * P

\* P is a prime between 3 and 255.
LEMMA PrimeType == P \in 3..255 /\ P \in Nat /\ P > 0
BY ShamirAssumption

\* Being the same element is an equivalence that sums and products respect.
LEMMA CongRefl == ASSUME NEW a \in Int PROVE Cong(a, a)
<1>1. P \in Int /\ a = a + 0 * P
  BY PrimeType
<1> QED BY <1>1 DEF Cong

LEMMA CongSym ==
  ASSUME NEW a \in Int, NEW b \in Int, Cong(a, b)
  PROVE  Cong(b, a)
<1>1. PICK k \in Int : a = b + k * P
  BY DEF Cong
<1>2. P \in Int /\ -k \in Int /\ b = a + (-k) * P
  BY <1>1, PrimeType
<1> QED BY <1>2 DEF Cong

LEMMA CongTrans ==
  ASSUME NEW a \in Int, NEW b \in Int, NEW c \in Int, Cong(a, b), Cong(b, c)
  PROVE  Cong(a, c)
<1>1. PICK k \in Int : a = b + k * P
  BY DEF Cong
<1>2. PICK l \in Int : b = c + l * P
  BY DEF Cong
<1>3. P \in Int /\ k + l \in Int /\ a = c + (k + l) * P
  BY <1>1, <1>2, PrimeType
<1> QED BY <1>3 DEF Cong

LEMMA CongPlus ==
  ASSUME NEW a \in Int, NEW b \in Int, NEW c \in Int, NEW d \in Int, Cong(a, b), Cong(c, d)
  PROVE  Cong(a + c, b + d)
<1>1. PICK k \in Int : a = b + k * P
  BY DEF Cong
<1>2. PICK l \in Int : c = d + l * P
  BY DEF Cong
<1>3. P \in Int /\ k + l \in Int /\ a + c = (b + d) + (k + l) * P
  BY <1>1, <1>2, PrimeType
<1> QED BY <1>3 DEF Cong

LEMMA CongTimes ==
  ASSUME NEW a \in Int, NEW b \in Int, NEW c \in Int, NEW d \in Int, Cong(a, b), Cong(c, d)
  PROVE  Cong(a * c, b * d)
<1>1. PICK k \in Int : a = b + k * P
  BY DEF Cong
<1>2. PICK l \in Int : c = d + l * P
  BY DEF Cong
<1>3. P \in Int
  BY PrimeType
<1>4. a * c = b * d + (b * l + k * d + k * l * P) * P
  BY <1>1, <1>2, <1>3
<1>5. b * l + k * d + k * l * P \in Int
  BY <1>3
<1> QED BY <1>4, <1>5 DEF Cong

\* Each element has its residue.
LEMMA CongMod ==
  ASSUME NEW a \in Int
  PROVE  a % P \in Field /\ Cong(a, a % P)
<1>1. P \in Int /\ P > 0
  BY PrimeType
<1>2. a % P \in 0..(P - 1) /\ a \div P \in Int /\ a = P * (a \div P) + (a % P)
  BY <1>1
<1>3. PICK d \in Int : d = a \div P
  BY <1>2
<1>4. PICK r \in 0..(P - 1) : r = a % P
  BY <1>2
<1>5. a = r + d * P
  BY <1>1, <1>2, <1>3, <1>4
<1> QED BY <1>2, <1>3, <1>4, <1>5 DEF Cong, Field

\* Elements are told apart by their residues.
LEMMA CongEqual ==
  ASSUME NEW a \in Field, NEW b \in Field, Cong(a, b)
  PROVE  a = b
<1>1. PICK k \in Int : a = b + k * P
  BY DEF Cong
<1>2. P \in Int /\ P > 0 /\ a \in Int /\ b \in Int /\ a - b < P /\ b - a < P
  BY PrimeType DEF Field
<1>3. k * P < P /\ (-k) * P < P
  BY <1>1, <1>2
<1>4. k >= 1 => k * P >= P
  BY <1>2
<1>5. k <= -1 => (-k) * P >= P
  BY <1>2
<1>6. k = 0
  BY <1>3, <1>4, <1>5, <1>2
<1> QED BY <1>1, <1>2, <1>6

-----------------------------------------------------------------------------
\* A set of numbers has a least one.
LEMMA Least ==
  ASSUME NEW T \in SUBSET Nat, T # {}
  PROVE  \E n \in T : \A m \in T : n <= m
<1> DEFINE F == { 0..n : n \in T }
<1>1. F \subseteq FiniteSubsetsOf(Nat) /\ F # {}
  <2>1. ASSUME NEW n \in T PROVE 0..n \in FiniteSubsetsOf(Nat)
    <3>1. IsFiniteSet(0..n)
      BY FS_Interval
    <3> QED BY <3>1 DEF FiniteSubsetsOf
  <2> QED BY <2>1
<1>2. PICK x \in F : \A z \in F : ~(<<z, x>> \in StrictSubsetOrdering(Nat))
  <2>1. IsWellFoundedOn(StrictSubsetOrdering(Nat), FiniteSubsetsOf(Nat))
    BY FS_StrictSubsetOrderingWellFounded
  <2> QED BY <2>1, <1>1, WFMin, Zenon
<1>3. PICK n \in T : x = 0..n
  BY <1>2
<1>4. ASSUME NEW m \in T PROVE n <= m
  <2>1. SUFFICES ASSUME m < n PROVE FALSE
    OBVIOUS
  <2>2. 0..m \in F /\ ~(<<0..m, 0..n>> \in StrictSubsetOrdering(Nat))
    BY <1>2, <1>3
  <2>3. 0..m \subseteq Nat /\ 0..n \subseteq Nat /\ 0..m \subseteq 0..n /\ n \in 0..n /\ n \notin 0..m
    BY <2>1
  <2>4. 0..m # 0..n
    BY <2>3
  <2> QED BY <2>2, <2>3, <2>4 DEF StrictSubsetOrdering
<1> QED BY <1>4

\* A set that holds 0 and with each number the next one holds them all.
LEMMA SetInduction ==
  ASSUME NEW S \in SUBSET Nat, 0 \in S, \A n \in S : n + 1 \in S
  PROVE  S = Nat
<1>1. SUFFICES ASSUME Nat \ S # {} PROVE FALSE
  OBVIOUS
<1>2. PICK n \in Nat \ S : \A m \in Nat \ S : n <= m
  BY <1>1, Least
<1>3. n # 0 /\ n - 1 \in S
  BY <1>2
<1> QED BY <1>2, <1>3

\* Every element but 0 has an inverse: the least residue among its multiples divides P.
LEMMA InverseExists ==
  ASSUME NEW a \in Int, ~Cong(a, 0)
  PROVE  \E b \in Int : Cong(a * b, 1)
<1> DEFINE Hit(r) == \E u \in Int : Cong(a * u, r)
           Reached == { r \in 1..(P - 1) : Hit(r) }
<1> P \in Nat /\ P \in 3..255 /\ P > 0
  BY PrimeType
<1>1. Reached \subseteq Nat /\ Reached # {}
  <2>1. PICK e \in 0..(P - 1) : Cong(a, e)
    BY CongMod DEF Field
  <2>2. e # 0
    BY <2>1
  <2>3. e \in 1..(P - 1) /\ a * 1 = a
    BY <2>2
  <2>4. Hit(e)
    <3>1. Cong(a * 1, e) /\ 1 \in Int
      BY <2>1, <2>3
    <3> QED BY <3>1, Zenon
  <2>5. e \in Reached
    BY <2>3, <2>4, Zenon
  <2>6. Reached \subseteq Nat
    <3> HIDE DEF Hit
    <3> QED OBVIOUS
  <2> QED BY <2>5, <2>6, Zenon
<1>2. PICK r \in Reached : \A m \in Reached : r <= m
  BY <1>1, Least
<1>3. PICK u \in Int : Cong(a * u, r)
  BY <1>2
<1>4. r \in 1..(P - 1)
  BY <1>2
<1>5. r = 1
  <2>1. PICK q \in Int, s \in 0..(r - 1) : P = r * q + s /\ s = P % r
    <3>1. P % r \in 0..(r - 1) /\ P \div r \in Int /\ P = r * (P \div r) + (P % r)
      BY <1>4
    <3> QED BY <3>1
  <2>2. Cong(a * (u * (-q)), s)
    <3>1. Cong((a * u) * (-q), r * (-q))
      <4>1. a * u \in Int /\ r \in Int /\ -q \in Int
        BY <1>4
      <4>2. Cong(-q, -q)
        BY <4>1, CongRefl
      <4> QED BY <4>1, <4>2, <1>3, CongTimes, Zenon
    <3>2. r * (-q) = s + (-1) * P
      BY <2>1, <1>4
    <3>3. Cong(r * (-q), s)
      BY <3>2 DEF Cong
    <3>4. (a * u) * (-q) = a * (u * (-q)) /\ (a * u) * (-q) \in Int /\ r * (-q) \in Int /\ s \in Int
      BY <1>4
    <3> QED BY <3>1, <3>3, <3>4, CongTrans
  <2>3. s = 0
    <3>1. CASE s # 0
      <4>1. u * (-q) \in Int /\ s \in 1..(P - 1)
        BY <3>1, <1>4
      <4>2. Hit(s)
        BY <4>1, <2>2, Zenon
      <4>3. s \in Reached
        BY <4>1, <4>2, Zenon
      <4> QED BY <4>3, <1>2, <1>4
    <3> QED BY <3>1
  <2>4. \A d \in 2..(P - 1) : P % d # 0
    BY ShamirAssumption
  <2>5. ~(r \in 2..(P - 1))
    BY <2>1, <2>3, <2>4, Zenon
  <2> QED BY <2>5, <1>4
<1> QED BY <1>3, <1>5, Zenon

\* A factor that is not zero can be struck.
LEMMA Strike ==
  ASSUME NEW a \in Int, NEW b \in Int, NEW c \in Int, ~Cong(c, 0), Cong(c * a, c * b)
  PROVE  Cong(a, b)
<1>1. PICK d \in Int : Cong(c * d, 1)
  BY InverseExists, Zenon
<1>a. c * d \in Int /\ 1 \in Int /\ c * a \in Int /\ c * b \in Int
  OBVIOUS
<1>2. Cong((c * d) * a, 1 * a) /\ Cong((c * d) * b, 1 * b)
  <2>1. Cong(a, a) /\ Cong(b, b)
    BY CongRefl, Zenon
  <2> QED BY <1>a, <2>1, <1>1, CongTimes, Zenon
<1>3. Cong(d * (c * a), d * (c * b))
  <2>1. Cong(d, d)
    BY CongRefl, Zenon
  <2> QED BY <1>a, <2>1, CongTimes, Zenon
<1>4. d * (c * a) = (c * d) * a /\ d * (c * b) = (c * d) * b /\ 1 * a = a /\ 1 * b = b
  OBVIOUS
<1>5. Cong(a, (c * d) * a)
  BY <1>2, <1>4, CongSym
<1>6. Cong(a, (c * d) * b)
  BY <1>3, <1>4, <1>5, CongTrans
<1> QED BY <1>2, <1>4, <1>6, CongTrans

-----------------------------------------------------------------------------
(***************************************************************************)
(* Sums and products over sets of elements, and the folds of the code.     *)
(***************************************************************************)

\* The elements are finitely many.
LEMMA FieldType ==
  /\ Field \subseteq Int /\ 0 \in Field /\ 1 \in Field /\ IsFiniteSet(Field)
  /\ \A s \in SUBSET Field : IsFiniteSet(s) /\ Cardinality(s) \in Nat
<1>1. P \in 3..255
  BY PrimeType
<1>2. IsFiniteSet(0..(P - 1))
  <2>1. 0 \in Int /\ P - 1 \in Int
    BY <1>1
  <2> QED BY <2>1, FS_Interval
<1>3. \A s \in SUBSET (0..(P - 1)) : IsFiniteSet(s) /\ Cardinality(s) \in Nat
  BY <1>2, FS_Subset, FS_CardinalityType
<1> QED BY <1>1, <1>2, <1>3 DEF Field

\* What holds of a set of elements whenever it holds of each set with one less
\* holds of all.
LEMMA FieldSetInduction ==
  ASSUME NEW C, {} \in C,
         \A s \in SUBSET Field : s # {} /\ (\A x \in s : s \ {x} \in C) => s \in C
  PROVE  SUBSET Field \subseteq C
<1> DEFINE All(n) == \A s \in SUBSET Field : Cardinality(s) = n => s \in C
           T == { n \in Nat : All(n) }
<1>1. 0 \in T
  <2>1. ASSUME NEW s \in SUBSET Field, Cardinality(s) = 0 PROVE s \in C
    BY <2>1, FieldType, FS_EmptySet
  <2> QED BY <2>1
<1>2. ASSUME NEW n \in T PROVE n + 1 \in T
  <2>1. ASSUME NEW s \in SUBSET Field, Cardinality(s) = n + 1 PROVE s \in C
    <3>1. IsFiniteSet(s) /\ s # {}
      BY <2>1, FieldType, FS_EmptySet
    <3>2. ASSUME NEW x \in s PROVE s \ {x} \in C
      <4>1. Cardinality(s \ {x}) = Cardinality(s) - 1
        BY <3>1, FS_RemoveElement
      <4>2. n \in Nat
        OBVIOUS
      <4>3. Cardinality(s \ {x}) = n
        <5> HIDE DEF T
        <5> QED BY <2>1, <4>1, <4>2
      <4> QED BY <4>3
    <3> QED BY <3>1, <3>2
  <2> QED BY <2>1
<1>3. T = Nat
  <2> HIDE DEF All
  <2> QED BY <1>1, <1>2, SetInduction
<1>4. ASSUME NEW s \in SUBSET Field PROVE s \in C
  <2>1. Cardinality(s) \in T
    BY <1>3, FieldType
  <2> QED BY <2>1
<1> QED BY <1>4

\* Sums and products of integers over subsets of the field.
Joined(op, a, b) == IF op = "times" THEN a * b ELSE a + b
Neutral(op) == IF op = "times" THEN 1 ELSE 0

IsFold(op, h, S, f) ==
  /\ f \in [SUBSET S -> Int] /\ f[{}] = Neutral(op)
  /\ \A s \in SUBSET S : \A x \in s : f[s] = Joined(op, h[x], f[s \ {x}])

Fold(op, h) == CHOOSE f : IsFold(op, h, Field, f)

Sum(h, s) == Fold("plus", h)[s]
Prod(h, s) == Fold("times", h)[s]

\* The order of two steps does not matter.
LEMMA JoinedFacts ==
  ASSUME NEW op, NEW a \in Int, NEW b \in Int, NEW c \in Int
  PROVE  /\ Joined(op, a, b) \in Int /\ Neutral(op) \in Int
         /\ Joined(op, a, Joined(op, b, c)) = Joined(op, b, Joined(op, a, c))
<1>1. CASE op = "times"
  BY <1>1 DEF Joined, Neutral
<1>2. CASE op # "times"
  BY <1>2 DEF Joined, Neutral
<1> QED BY <1>1, <1>2

\* A fold over one element more.
LEMMA FoldGrows ==
  ASSUME NEW op, NEW S, NEW a, a \notin S, NEW h, \A x \in S \cup {a} : h[x] \in Int,
         NEW f, IsFold(op, h, S, f)
  PROVE  \E g : IsFold(op, h, S \cup {a}, g)
<1> DEFINE R == S \cup {a}
           g == [s \in SUBSET R |-> IF a \in s THEN Joined(op, h[a], f[s \ {a}]) ELSE f[s]]
<1>1. \A s \in SUBSET R : s \ {a} \in SUBSET S /\ (a \notin s => s \in SUBSET S)
  OBVIOUS
<1>f. f \in [SUBSET S -> Int] /\ f[{}] = Neutral(op)
  BY DEF IsFold
<1>2. g \in [SUBSET R -> Int]
  <2>1. ASSUME NEW s \in SUBSET R PROVE g[s] \in Int
    <3>1. f[s \ {a}] \in Int /\ h[a] \in Int /\ (a \notin s => f[s] \in Int)
      BY <1>1, <1>f
    <3> QED BY <3>1, JoinedFacts
  <2> QED BY <2>1
<1>3. g[{}] = Neutral(op)
  BY <1>f
<1>4. ASSUME NEW s \in SUBSET R, NEW x \in s PROVE g[s] = Joined(op, h[x], g[s \ {x}])
  <2>1. CASE a \notin s
    <3>1. s \in SUBSET S /\ s \ {x} \in SUBSET R /\ a \notin s \ {x}
      BY <2>1
    <3>2. f[s] = Joined(op, h[x], f[s \ {x}])
      BY <3>1 DEF IsFold
    <3> QED BY <2>1, <3>1, <3>2
  <2>2. CASE x = a
    BY <2>2
  <2>3. CASE a \in s /\ x # a
    <3> DEFINE r == s \ {a}
    <3>1. r \in SUBSET S /\ x \in r /\ s \ {x} \in SUBSET R /\ a \in s \ {x}
      BY <2>3
    <3>2. (s \ {x}) \ {a} = r \ {x}
      OBVIOUS
    <3>3. f[r] = Joined(op, h[x], f[r \ {x}])
      BY <3>1 DEF IsFold
    <3>4. g[s] = Joined(op, h[a], f[r]) /\ g[s \ {x}] = Joined(op, h[a], f[r \ {x}])
      BY <3>1, <3>2, <2>3
    <3>5. h[a] \in Int /\ h[x] \in Int /\ f[r \ {x}] \in Int
      BY <3>1, <1>f
    <3> HIDE DEF g, r
    <3> QED BY <3>3, <3>4, <3>5, JoinedFacts
  <2> QED BY <2>1, <2>2, <2>3
<1>5. IsFold(op, h, R, g)
  <2> HIDE DEF g, R
  <2> QED BY <1>2, <1>3, <1>4 DEF IsFold
<1> QED BY <1>5

\* So there is a fold over the field.
LEMMA FoldExists ==
  ASSUME NEW op, NEW h \in [Field -> Int]
  PROVE  IsFold(op, h, Field, Fold(op, h))
<1> DEFINE Upto(n) == \E f : IsFold(op, h, 0..(n - 1), f)
           T == { n \in Nat : n <= P => Upto(n) }
<1> P \in Nat /\ P > 0
  BY PrimeType
<1>1. 0 \in T
  <2> DEFINE f == [s \in {{}} |-> Neutral(op)]
  <2>1. 0..(0 - 1) = {} /\ SUBSET {} = {{}}
    OBVIOUS
  <2>2. IsFold(op, h, {}, f)
    BY <2>1 DEF IsFold, Neutral
  <2> QED BY <2>1, <2>2
<1>2. ASSUME NEW n \in T PROVE n + 1 \in T
  <2>1. SUFFICES ASSUME n + 1 <= P PROVE Upto(n + 1)
    OBVIOUS
  <2>2. PICK f : IsFold(op, h, 0..(n - 1), f)
    BY <2>1
  <2>3. 0..((n + 1) - 1) = 0..(n - 1) \cup {n} /\ n \notin 0..(n - 1) /\ 0..n \subseteq Field
    BY <2>1 DEF Field
  <2>4. \A x \in 0..(n - 1) \cup {n} : h[x] \in Int
    BY <2>3
  <2>5. \E g : IsFold(op, h, 0..(n - 1) \cup {n}, g)
    BY <2>2, <2>3, <2>4, FoldGrows
  <2> QED BY <2>3, <2>5, Zenon
<1>3. T = Nat
  <2> HIDE DEF Upto
  <2> QED BY <1>1, <1>2, SetInduction
<1>4. Upto(P)
  <2>1. P \in T
    <3> HIDE DEF T
    <3> QED BY <1>3
  <2> HIDE DEF Upto
  <2> QED BY <2>1
<1> QED BY <1>4 DEF Fold, Field

\* What a sum and a product are, whichever element comes first.
LEMMA SumFacts ==
  ASSUME NEW h \in [Field -> Int]
  PROVE  /\ Sum(h, {}) = 0
         /\ \A s \in SUBSET Field : Sum(h, s) \in Int
         /\ \A s \in SUBSET Field : \A x \in s : Sum(h, s) = h[x] + Sum(h, s \ {x})
BY FoldExists DEF IsFold, Sum, Joined, Neutral

LEMMA ProdFacts ==
  ASSUME NEW h \in [Field -> Int]
  PROVE  /\ Prod(h, {}) = 1
         /\ \A s \in SUBSET Field : Prod(h, s) \in Int
         /\ \A s \in SUBSET Field : \A x \in s : Prod(h, s) = h[x] * Prod(h, s \ {x})
BY FoldExists DEF IsFold, Prod, Joined, Neutral

-----------------------------------------------------------------------------

\* f is the iteration of t over subsets of S, whose elements c picks one by one.
Iterates(f, S, base, c, t) ==
  \A s \in SUBSET S : f[s] = IF s = {} THEN base ELSE t[<<c[s], f[s \ {c[s]}]>>]

\* There is one, by induction on the size of the sets.
LEMMA IterExists ==
  ASSUME NEW S, IsFiniteSet(S), NEW B, NEW base \in B,
         NEW c, \A s \in SUBSET S : s # {} => c[s] \in s,
         NEW t \in [S \X B -> B]
  PROVE  \E f \in [SUBSET S -> B] : Iterates(f, S, base, c, t)
<1> DEFINE Right(f, s) == f[s] = IF s = {} THEN base ELSE t[<<c[s], f[s \ {c[s]}]>>]
           Upto(n) == \E f \in [SUBSET S -> B] :
                        \A s \in SUBSET S : Cardinality(s) <= n => Right(f, s)
           T == { n \in Nat : Upto(n) }
<1>a. ASSUME NEW s \in SUBSET S
      PROVE  IsFiniteSet(s) /\ Cardinality(s) \in Nat /\ Cardinality(s) <= Cardinality(S)
  BY FS_Subset, FS_CardinalityType, Zenon
<1>b. ASSUME NEW s \in SUBSET S, s # {}
      PROVE  /\ c[s] \in s /\ c[s] \in S /\ s \ {c[s]} \in SUBSET S
             /\ Cardinality(s \ {c[s]}) = Cardinality(s) - 1
  <2>1. c[s] \in s
    BY <1>b
  <2>2. Cardinality(s \ {c[s]}) = Cardinality(s) - 1
    BY <1>a, <2>1, FS_RemoveElement, Zenon
  <2> QED BY <2>1, <2>2
<1>1. 0 \in T
  <2> DEFINE f == [s \in SUBSET S |-> base]
  <2>1. f \in [SUBSET S -> B]
    OBVIOUS
  <2>2. ASSUME NEW s \in SUBSET S, Cardinality(s) <= 0 PROVE Right(f, s)
    <3>1. s = {}
      BY <2>2, <1>a, FS_EmptySet
    <3> QED BY <3>1
  <2> HIDE DEF f, Right
  <2> QED BY <2>1, <2>2
<1>2. ASSUME NEW n \in T PROVE n + 1 \in T
  <2>1. PICK f \in [SUBSET S -> B] : \A s \in SUBSET S : Cardinality(s) <= n => Right(f, s)
    <3> HIDE DEF Right
    <3> QED OBVIOUS
  <2> DEFINE g == [s \in SUBSET S |-> IF s = {} THEN base ELSE t[<<c[s], f[s \ {c[s]}]>>]]
  <2>2. g \in [SUBSET S -> B]
    <3>1. ASSUME NEW s \in SUBSET S PROVE g[s] \in B
      <4>1. CASE s = {}
        BY <4>1
      <4>2. CASE s # {}
        <5>1. c[s] \in S /\ s \ {c[s]} \in SUBSET S
          BY <1>b, <4>2
        <5>2. t[<<c[s], f[s \ {c[s]}]>>] \in B
          BY <5>1
        <5> QED BY <5>2, <4>2
      <4> QED BY <4>1, <4>2
    <3> QED BY <3>1
  <2>3. ASSUME NEW s \in SUBSET S, Cardinality(s) <= n PROVE g[s] = f[s]
    BY <2>1, <2>3
  <2>4. ASSUME NEW s \in SUBSET S, Cardinality(s) <= n + 1 PROVE Right(g, s)
    <3>1. CASE s = {}
      BY <3>1
    <3>2. CASE s # {}
      <4> DEFINE r == s \ {c[s]}
      <4>1. r \in SUBSET S /\ Cardinality(r) <= n
        <5>1. n \in Nat /\ Cardinality(s) \in Nat
          <6> HIDE DEF Upto
          <6> QED BY <1>a
        <5>2. Cardinality(r) = Cardinality(s) - 1 /\ r \in SUBSET S
          BY <1>b, <3>2
        <5> HIDE DEF T, r
        <5> QED BY <5>2, <2>4, <5>1
      <4>2. g[r] = f[r]
        <5> HIDE DEF g, r
        <5> QED BY <4>1, <2>3
      <4>3. g[s] = t[<<c[s], f[r]>>]
        BY <3>2
      <4> QED BY <4>2, <4>3, <3>2
    <3> QED BY <3>1, <3>2
  <2>5. Upto(n + 1)
    <3> HIDE DEF g, Right
    <3> QED BY <2>2, <2>4
  <2>6. n + 1 \in Nat
    <3> HIDE DEF Upto
    <3> QED OBVIOUS
  <2> HIDE DEF Upto
  <2> QED BY <2>5, <2>6
<1>3. Cardinality(S) \in T
  <2>1. T = Nat
    <3>1. T \in SUBSET Nat
      OBVIOUS
    <3> HIDE DEF T
    <3> QED BY <3>1, <1>1, <1>2, SetInduction
  <2>2. Cardinality(S) \in Nat
    BY FS_CardinalityType
  <2> HIDE DEF T
  <2> QED BY <2>1, <2>2
<1>4. PICK f \in [SUBSET S -> B] :
        \A s \in SUBSET S : Cardinality(s) <= Cardinality(S) => Right(f, s)
  BY <1>3
<1>5. ASSUME NEW s \in SUBSET S PROVE Right(f, s)
  <2>1. Cardinality(s) <= Cardinality(S)
    BY <1>a
  <2> HIDE DEF Right
  <2> QED BY <2>1, <1>4
<1> QED BY <1>5, Zenon DEF Iterates

\* The steps of the library's fold over a set, with a table of its operator.
Repeats(f, S, base, t) ==
  \A s \in SUBSET S : f[s] = IF s = {} THEN base
                             ELSE t[<<CHOOSE x \in s : TRUE, f[s \ {CHOOSE x \in s : TRUE}]>>]

\* And there is one for FoldSet, which chooses as CHOOSE does.
LEMMA FoldSetSteps ==
  ASSUME NEW S \in SUBSET Field, NEW base \in Field, NEW t \in [S \X Field -> Field]
  PROVE  \E f \in [SUBSET S -> Field] : Repeats(f, S, base, t)
<1> DEFINE c == [s \in SUBSET S |-> CHOOSE x \in s : TRUE]
<1>1. \A s \in SUBSET S : s # {} => c[s] \in s
  OBVIOUS
<1>2. IsFiniteSet(S)
  BY FieldType
<1>3. PICK f \in [SUBSET S -> Field] : Iterates(f, S, base, c, t)
  <2> HIDE DEF c
  <2> QED BY <1>1, <1>2, IterExists, Zenon
<1>4. ASSUME NEW s \in SUBSET S PROVE c[s] = CHOOSE x \in s : TRUE
  OBVIOUS
<1> HIDE DEF c
<1>5. Repeats(f, S, base, t)
  BY <1>3, <1>4, Zenon DEF Iterates, Repeats
<1> QED BY <1>5, Zenon

-----------------------------------------------------------------------------
\* Nothing of what the code computes overflows 16 bits.
LEMMA Small ==
  ASSUME NEW a \in Field, NEW b \in Field, NEW c \in Octet
  PROVE  /\ a * b \in Nat /\ U16(a * b) = a * b
         /\ U16(U16(a * b) + c) = a * b + c
         /\ U16(a + U16(b * c)) = a + b * c
<1>1. a \in 0..254 /\ b \in 0..254
  BY PrimeType DEF Field
<1>2. a * b \in Nat /\ a * b <= 254 * b
  BY <1>1
<1>3. b * c \in Nat /\ b * c <= 254 * c
  BY <1>1 DEF Octet
<1>4. PICK m \in Nat : m = a * b /\ m <= 254 * b
  BY <1>2, Zenon
<1>5. PICK n \in Nat : n = b * c /\ n <= 254 * c
  BY <1>3, Zenon
<1>6. \A k \in Nat : k < 65536 => U16(k) = k
  BY DEF U16
<1>7. m <= 64516 /\ n <= 64770
  BY <1>1, <1>4, <1>5 DEF Octet
<1>8. m < 65536 /\ m + c \in Nat /\ m + c < 65536 /\ n < 65536 /\ a + n \in Nat /\ a + n < 65536
  BY <1>1, <1>7 DEF Octet
<1>9. U16(m) = m /\ U16(m + c) = m + c /\ U16(n) = n /\ U16(a + n) = a + n
  BY <1>6, <1>8
<1> QED BY <1>4, <1>5, <1>9, Zenon

\* A step of a sum or of a product respects congruence.
LEMMA CongJoined ==
  ASSUME NEW op, NEW a \in Int, NEW b \in Int, NEW c \in Int, Cong(b, c)
  PROVE  Cong(Joined(op, a, b), Joined(op, a, c))
<1>1. Cong(a, a)
  BY CongRefl, Zenon
<1>2. Cong(a * b, a * c) /\ Cong(a + b, a + c)
  BY <1>1, CongTimes, CongPlus, Zenon
<1> QED BY <1>2, Zenon DEF Joined

\* A fold over field elements whose steps are those of a sum or a product modulo P
\* is that sum or product.
Table(t, S, op, h) ==
  /\ t \in [Field \X Field -> Field]
  /\ \A x \in S : \A acc \in Field : Cong(t[<<x, acc>>], Joined(op, h[x], acc))

Follows(g, S, base, t) ==
  /\ g[{}] = base
  /\ \A s \in SUBSET S :
       s # {} => \E x \in s : g[s \ {x}] \in Field => g[s] = t[<<x, g[s \ {x}]>>]

\* Its value, by induction on the set.
LEMMA FoldValue ==
  ASSUME NEW op, NEW h \in [Field -> Int], NEW S \in SUBSET Field,
         NEW base \in Field, base = Neutral(op),
         NEW t, Table(t, S, op, h), NEW g, Follows(g, S, base, t)
  PROVE  g[S] \in Field /\ Cong(g[S], Fold(op, h)[S])
<1> DEFINE F == Fold(op, h)
           Fine(s) == g[s] \in Field /\ Cong(g[s], F[s])
           C == { s \in SUBSET Field : s \in SUBSET S => Fine(s) }
<1>1. IsFold(op, h, Field, F)
  BY FoldExists
<1>2. {} \in C
  <2>1. F[{}] = Neutral(op)
    BY <1>1 DEF IsFold
  <2>2. Cong(base, base) /\ g[{}] = base
    BY CongRefl, FieldType DEF Follows
  <2> QED BY <2>1, <2>2
<1>3. ASSUME NEW s \in SUBSET Field, s # {}, \A x \in s : s \ {x} \in C PROVE s \in C
  <2>1. SUFFICES ASSUME s \in SUBSET S PROVE Fine(s)
    OBVIOUS
  <2>2. PICK x \in s : g[s \ {x}] \in Field => g[s] = t[<<x, g[s \ {x}]>>]
    BY <1>3, <2>1 DEF Follows
  <2>3. s \ {x} \in SUBSET S /\ s \ {x} \in SUBSET Field /\ x \in Field /\ x \in S
    BY <2>1
  <2>4. Fine(s \ {x})
    BY <1>3, <2>3
  <2>5. g[s] \in Field /\ Cong(g[s], Joined(op, h[x], g[s \ {x}]))
    <3>1. g[s] = t[<<x, g[s \ {x}]>>] /\ g[s \ {x}] \in Field
      BY <2>2, <2>4
    <3>2. t[<<x, g[s \ {x}]>>] \in Field
      BY <2>3, <3>1 DEF Table
    <3> QED BY <2>3, <3>1, <3>2 DEF Table
  <2>6. /\ F[s] = Joined(op, h[x], F[s \ {x}])
        /\ F[s] \in Int /\ F[s \ {x}] \in Int /\ g[s] \in Int /\ g[s \ {x}] \in Int /\ h[x] \in Int
    <3>1. h[x] \in Int /\ g[s] \in Int /\ g[s \ {x}] \in Int
      BY <2>3, <2>4, <2>5, FieldType
    <3> HIDE DEF F
    <3>2. F[s] = Joined(op, h[x], F[s \ {x}]) /\ F \in [SUBSET Field -> Int]
      BY <1>1, Zenon DEF IsFold
    <3>3. F[s] \in Int
      BY <3>2
    <3>4. F[s \ {x}] \in Int
      BY <3>2, <2>3
    <3> QED BY <3>1, <3>2, <3>3, <3>4, Zenon
  <2>7. Cong(Joined(op, h[x], g[s \ {x}]), F[s])
    <3>1. Cong(Joined(op, h[x], g[s \ {x}]), Joined(op, h[x], F[s \ {x}]))
      BY <2>4, <2>6, CongJoined, Zenon
    <3> QED BY <3>1, <2>6
  <2>8. Joined(op, h[x], g[s \ {x}]) \in Int
    BY <2>6, JoinedFacts, Zenon
  <2> QED BY <2>5, <2>6, <2>7, <2>8, CongTrans, Zenon
<1>4. SUBSET Field \subseteq C
  <2> HIDE DEF C
  <2> QED BY <1>2, <1>3, FieldSetInduction
<1>5. Fine(S)
  <2>1. S \in C
    BY <1>4
  <2> QED BY <2>1
<1> QED BY <1>5

\* What the code computes in 16 bits is a step of a sum or a product modulo P.
LEMMA Steps ==
  ASSUME NEW a \in Field, NEW b \in Field, NEW c \in Octet
  PROVE  /\ U16(a * b) % P \in Field /\ Cong(U16(a * b) % P, b * a)
         /\ U16(U16(a * b) + c) % P \in Field /\ Cong(U16(U16(a * b) + c) % P, c + b * a)
         /\ U16(a + U16(b * c)) % P \in Field /\ Cong(U16(a + U16(b * c)) % P, b * c + a)
<1>1. a \in Int /\ b \in Int /\ c \in Int
  BY FieldType DEF Octet
<1>2. ASSUME NEW m \in Int PROVE m % P \in Field /\ Cong(m % P, m)
  <2>1. m % P \in Field /\ Cong(m, m % P)
    BY CongMod, Zenon
  <2>2. m % P \in Int
    BY <2>1, FieldType
  <2> QED BY <2>1, <2>2, CongSym, Zenon
<1>3. /\ U16(a * b) = b * a /\ U16(U16(a * b) + c) = c + b * a /\ U16(a + U16(b * c)) = b * c + a
      /\ b * a \in Int /\ c + b * a \in Int /\ b * c + a \in Int
  <2>1. /\ a * b = b * a /\ b * a \in Int /\ c + b * a \in Int /\ b * c + a \in Int
        /\ b * a + c = c + b * a /\ a + b * c = b * c + a
    BY <1>1
  <2>2. U16(a * b) = a * b
    BY Small, Zenon
  <2>3. U16(U16(a * b) + c) = a * b + c
    BY Small, Zenon
  <2>4. U16(a + U16(b * c)) = a + b * c
    BY Small, Zenon
  <2> QED BY <2>1, <2>2, <2>3, <2>4, Zenon
<1> QED BY <1>2, <1>3, Zenon

\* combine_shares: numerator, denominator and the sum over the shares.
LEMMA NumeratorIs ==
  ASSUME NEW S \in SUBSET Field
  PROVE  LET num == FoldSet(LAMBDA xj, acc : U16(acc * xj) % P, 1, S)
         IN  num \in Field /\ Cong(num, Prod([x \in Field |-> x], S))
<1> DEFINE pick(s) == CHOOSE x \in s : TRUE
           t == [p \in Field \X Field |-> U16(p[2] * p[1]) % P]
           u == [p \in S \X Field |-> t[p]]
           h == [x \in Field |-> x]
           iter == CHOOSE it : it = [s \in SUBSET S |-> IF s = {} THEN 1
                                     ELSE U16(it[s \ {pick(s)}] * pick(s)) % P]
<1>1. \A x, acc \in Field : /\ t[<<x, acc>>] \in Field /\ t[<<x, acc>>] = U16(acc * x) % P
                            /\ Cong(t[<<x, acc>>], x * acc)
  <2>1. ASSUME NEW x \in Field, NEW acc \in Field
        PROVE  U16(acc * x) % P \in Field /\ Cong(U16(acc * x) % P, x * acc)
    <3>1. 0 \in Octet
      BY DEF Octet
    <3> QED BY <3>1, Steps, Zenon
  <2>2. \A x, acc \in Field : t[<<x, acc>>] = U16(acc * x) % P
    OBVIOUS
  <2> HIDE DEF t
  <2> QED BY <2>1, <2>2
<1>2. u \in [S \X Field -> Field]
  <2> HIDE DEF t
  <2> QED BY <1>1
<1>3. PICK f \in [SUBSET S -> Field] : Repeats(f, S, 1, u)
  <2> HIDE DEF u
  <2>1. 1 \in Field
    BY FieldType
  <2> QED BY <1>2, <2>1, FoldSetSteps, Zenon
<1>4. f = [s \in SUBSET S |-> IF s = {} THEN 1 ELSE U16(f[s \ {pick(s)}] * pick(s)) % P]
  <2>1. ASSUME NEW s \in SUBSET S, s # {}
        PROVE  f[s] = U16(f[s \ {pick(s)}] * pick(s)) % P
    <3>1. pick(s) \in S /\ pick(s) \in Field /\ f[s \ {pick(s)}] \in Field
      BY <2>1
    <3> HIDE DEF t, pick
    <3>2. f[s] = t[<<pick(s), f[s \ {pick(s)}]>>]
      <4>1. f[s] = u[<<pick(s), f[s \ {pick(s)}]>>]
        BY <1>3, <2>1 DEF Repeats, pick
      <4> QED BY <4>1, <3>1
    <3> QED BY <3>1, <3>2, <1>1
  <2>2. f[{}] = 1
    BY <1>3 DEF Repeats
  <2> HIDE DEF t, u, pick
  <2> QED BY <2>1, <2>2
<1>5. iter = [s \in SUBSET S |-> IF s = {} THEN 1 ELSE U16(iter[s \ {pick(s)}] * pick(s)) % P]
  BY <1>4
<1>6. FoldSet(LAMBDA xj, acc : U16(acc * xj) % P, 1, S) = iter[S]
  BY Zenon DEF FoldSet, MapThenFoldSet
<1>7. iter[S] \in Field /\ Cong(iter[S], Fold("times", h)[S])
  <2>1. t \in [Field \X Field -> Field] /\ h \in [Field -> Int] /\ 1 \in Field
    <3>1. h \in [Field -> Int]
      BY FieldType
    <3>2. t \in [Field \X Field -> Field]
      BY <1>1
    <3> QED BY <3>1, <3>2, FieldType
  <2>2. \A x \in S : \A acc \in Field : Cong(t[<<x, acc>>], Joined("times", h[x], acc))
    <3>1. \A x \in S : h[x] = x /\ x \in Field
      OBVIOUS
    <3> HIDE DEF t, h
    <3> QED BY <1>1, <3>1 DEF Joined
  <2>3. 1 = Neutral("times")
    BY DEF Neutral
  <2>4. iter[{}] = 1
    <3> HIDE DEF iter
    <3> QED BY <1>5
  <2>5. ASSUME NEW s \in SUBSET S, s # {}
        PROVE  \E x \in s : iter[s \ {x}] \in Field => iter[s] = t[<<x, iter[s \ {x}]>>]
    <3>1. pick(s) \in s /\ pick(s) \in Field
      BY <2>5
    <3> HIDE DEF pick, t, iter
    <3>2. iter[s] = U16(iter[s \ {pick(s)}] * pick(s)) % P
      BY <1>5, <2>5
    <3>3. iter[s \ {pick(s)}] \in Field => iter[s] = t[<<pick(s), iter[s \ {pick(s)}]>>]
      BY <3>1, <3>2, <1>1
    <3> QED BY <3>1, <3>3
  <2> HIDE DEF iter, t, h
  <2>6. Table(t, S, "times", h)
    BY <2>1, <2>2, Zenon DEF Table
  <2>7. Follows(iter, S, 1, t)
    BY <2>4, <2>5, Zenon DEF Follows
  <2> QED BY <2>1, <2>3, <2>6, <2>7, FoldValue, Zenon
<1> QED BY <1>6, <1>7 DEF Prod
\* combine_shares adds P before it subtracts.
LEMMA Difference ==
  ASSUME NEW a \in Field, NEW b \in Field
  PROVE  \E e \in Field : e = (a + P - b) % P /\ Cong(e, a - b)
<1>1. P \in Int /\ a + P - b \in Int /\ a - b \in Int /\ a + P - b = (a - b) + 1 * P
  BY PrimeType, FieldType
<1>2. Cong(a + P - b, a - b)
  <2>1. 1 \in Int
    OBVIOUS
  <2> QED BY <1>1, <2>1, Zenon DEF Cong
<1>3. (a + P - b) % P \in Field /\ Cong(a + P - b, (a + P - b) % P)
  BY <1>1, CongMod, Zenon
<1>4. (a + P - b) % P \in Int
  BY <1>3, FieldType
<1>5. Cong((a + P - b) % P, a + P - b)
  BY <1>1, <1>3, <1>4, CongSym, Zenon
<1>6. Cong((a + P - b) % P, a - b)
  BY <1>1, <1>2, <1>4, <1>5, CongTrans, Zenon
<1> QED BY <1>3, <1>6, Zenon

\* The denominator of a Lagrange coefficient.
LEMMA DenominatorIs ==
  ASSUME NEW S \in SUBSET Field, NEW xi \in Field
  PROVE  LET den == FoldSet(LAMBDA xj, acc : U16(acc * ((xj + P - xi) % P)) % P, 1, S)
         IN  den \in Field /\ Cong(den, Prod([x \in Field |-> x - xi], S))
<1> DEFINE pick(s) == CHOOSE x \in s : TRUE
           t == [p \in Field \X Field |-> U16(p[2] * ((p[1] + P - xi) % P)) % P]
           u == [p \in S \X Field |-> t[p]]
           h == [x \in Field |-> x - xi]
           iter == CHOOSE it : it = [s \in SUBSET S |-> IF s = {} THEN 1
                                     ELSE U16(it[s \ {pick(s)}] * ((pick(s) + P - xi) % P)) % P]
<1>1. \A x, acc \in Field : /\ t[<<x, acc>>] \in Field /\ t[<<x, acc>>] = U16(acc * ((x + P - xi) % P)) % P
                            /\ Cong(t[<<x, acc>>], (x - xi) * acc)
  <2>1. ASSUME NEW x \in Field, NEW acc \in Field
        PROVE  /\ U16(acc * ((x + P - xi) % P)) % P \in Field
               /\ Cong(U16(acc * ((x + P - xi) % P)) % P, (x - xi) * acc)
    <3>1. PICK e \in Field : e = (x + P - xi) % P /\ Cong(e, x - xi)
      BY Difference
    <3>2. U16(acc * e) % P \in Field /\ Cong(U16(acc * e) % P, e * acc)
      <4>1. 0 \in Octet
        BY DEF Octet
      <4> QED BY <4>1, Steps, Zenon
    <3>3. e \in Int /\ acc \in Int /\ x - xi \in Int /\ e * acc \in Int /\ (x - xi) * acc \in Int
      BY FieldType
    <3>4. Cong(e * acc, (x - xi) * acc)
      BY <3>1, <3>3, CongTimes, CongRefl, Zenon
    <3>5. U16(acc * e) % P \in Int
      BY <3>2, FieldType
    <3>6. Cong(U16(acc * e) % P, (x - xi) * acc)
      BY <3>2, <3>3, <3>4, <3>5, CongTrans, Zenon
    <3> QED BY <3>1, <3>2, <3>6
  <2>2. \A x, acc \in Field : t[<<x, acc>>] = U16(acc * ((x + P - xi) % P)) % P
    OBVIOUS
  <2> HIDE DEF t
  <2> QED BY <2>1, <2>2
<1>2. u \in [S \X Field -> Field]
  <2> HIDE DEF t
  <2> QED BY <1>1
<1>3. PICK f \in [SUBSET S -> Field] : Repeats(f, S, 1, u)
  <2> HIDE DEF u
  <2>1. 1 \in Field
    BY FieldType
  <2> QED BY <1>2, <2>1, FoldSetSteps, Zenon
<1>4. f = [s \in SUBSET S |-> IF s = {} THEN 1 ELSE U16(f[s \ {pick(s)}] * ((pick(s) + P - xi) % P)) % P]
  <2>1. ASSUME NEW s \in SUBSET S, s # {}
        PROVE  f[s] = U16(f[s \ {pick(s)}] * ((pick(s) + P - xi) % P)) % P
    <3>1. pick(s) \in S /\ pick(s) \in Field /\ f[s \ {pick(s)}] \in Field
      BY <2>1
    <3> HIDE DEF t, pick
    <3>2. f[s] = t[<<pick(s), f[s \ {pick(s)}]>>]
      <4>1. f[s] = u[<<pick(s), f[s \ {pick(s)}]>>]
        BY <1>3, <2>1 DEF Repeats, pick
      <4> QED BY <4>1, <3>1
    <3> QED BY <3>1, <3>2, <1>1
  <2>2. f[{}] = 1
    BY <1>3 DEF Repeats
  <2> HIDE DEF t, u, pick
  <2> QED BY <2>1, <2>2
<1>5. iter = [s \in SUBSET S |->
                IF s = {} THEN 1
                ELSE U16(iter[s \ {pick(s)}] * ((pick(s) + P - xi) % P)) % P]
  BY <1>4
<1>6. FoldSet(LAMBDA xj, acc : U16(acc * ((xj + P - xi) % P)) % P, 1, S) = iter[S]
  BY Zenon DEF FoldSet, MapThenFoldSet
<1>7. iter[S] \in Field /\ Cong(iter[S], Fold("times", h)[S])
  <2>1. t \in [Field \X Field -> Field] /\ h \in [Field -> Int] /\ 1 \in Field
    <3>1. h \in [Field -> Int]
      BY FieldType
    <3>2. t \in [Field \X Field -> Field]
      BY <1>1
    <3> QED BY <3>1, <3>2, FieldType
  <2>2. \A x \in S : \A acc \in Field : Cong(t[<<x, acc>>], Joined("times", h[x], acc))
    <3>1. \A x \in S : h[x] = x - xi /\ x \in Field
      OBVIOUS
    <3> HIDE DEF t, h
    <3> QED BY <1>1, <3>1 DEF Joined
  <2>3. 1 = Neutral("times")
    BY DEF Neutral
  <2>4. iter[{}] = 1
    <3> HIDE DEF iter
    <3> QED BY <1>5
  <2>5. ASSUME NEW s \in SUBSET S, s # {}
        PROVE  \E x \in s : iter[s \ {x}] \in Field => iter[s] = t[<<x, iter[s \ {x}]>>]
    <3>1. pick(s) \in s /\ pick(s) \in Field
      BY <2>5
    <3> HIDE DEF pick, t, iter
    <3>2. iter[s] = U16(iter[s \ {pick(s)}] * ((pick(s) + P - xi) % P)) % P
      BY <1>5, <2>5
    <3>3. iter[s \ {pick(s)}] \in Field => iter[s] = t[<<pick(s), iter[s \ {pick(s)}]>>]
      BY <3>1, <3>2, <1>1
    <3> QED BY <3>1, <3>3
  <2> HIDE DEF iter, t, h
  <2>6. Table(t, S, "times", h)
    BY <2>1, <2>2, Zenon DEF Table
  <2>7. Follows(iter, S, 1, t)
    BY <2>4, <2>5, Zenon DEF Follows
  <2> QED BY <2>1, <2>3, <2>6, <2>7, FoldValue, Zenon
<1> QED BY <1>6, <1>7 DEF Prod
\* The byte of the key is the sum over the shares.
LEMMA CombineIs ==
  ASSUME NEW S \in SUBSET Field, \A x \in S : Lagrange(S, x) \in Field /\ y[x] \in Field
  PROVE  /\ Combine(S) \in Field
         /\ Cong(Combine(S), Sum([x \in Field |-> IF x \in S THEN Lagrange(S, x) * y[x] ELSE 0], S))
<1> DEFINE pick(s) == CHOOSE x \in s : TRUE
           t == [p \in Field \X Field |->
                   IF p[1] \in S
                   THEN U16(p[2] + U16(Lagrange(S, p[1]) * y[p[1]])) % P
                   ELSE 0]
           u == [p \in S \X Field |-> t[p]]
           h == [x \in Field |-> IF x \in S THEN Lagrange(S, x) * y[x] ELSE 0]
           iter == CHOOSE it : it = [s \in SUBSET S |-> IF s = {} THEN 0
                                     ELSE U16(it[s \ {pick(s)}] + U16(Lagrange(S, pick(s)) * y[pick(s)])) % P]
<1>1. \A x \in S : \A acc \in Field :
        /\ t[<<x, acc>>] \in Field /\ t[<<x, acc>>] = U16(acc + U16(Lagrange(S, x) * y[x])) % P
        /\ Cong(t[<<x, acc>>], Lagrange(S, x) * y[x] + acc)
  <2>1. ASSUME NEW x \in S, NEW acc \in Field
        PROVE  LET v == U16(acc + U16(Lagrange(S, x) * y[x])) % P
               IN  v \in Field /\ Cong(v, Lagrange(S, x) * y[x] + acc)
    <3>1. Lagrange(S, x) \in Field /\ y[x] \in Octet
      <4>1. Field \subseteq Octet
        BY PrimeType DEF Field, Octet
      <4> QED BY <4>1, Zenon
    <3> QED BY <3>1, Steps, Zenon
  <2>2. \A x \in S : \A acc \in Field : t[<<x, acc>>] = U16(acc + U16(Lagrange(S, x) * y[x])) % P
    OBVIOUS
  <2> HIDE DEF t
  <2> QED BY <2>1, <2>2
<1>2. u \in [S \X Field -> Field]
  <2> HIDE DEF t
  <2> QED BY <1>1
<1>3. PICK f \in [SUBSET S -> Field] : Repeats(f, S, 0, u)
  <2> HIDE DEF u
  <2>1. 0 \in Field
    BY FieldType
  <2> QED BY <1>2, <2>1, FoldSetSteps, Zenon
<1>4. f = [s \in SUBSET S |->
             IF s = {} THEN 0
             ELSE U16(f[s \ {pick(s)}] + U16(Lagrange(S, pick(s)) * y[pick(s)])) % P]
  <2>1. ASSUME NEW s \in SUBSET S, s # {}
        PROVE  f[s] = U16(f[s \ {pick(s)}] + U16(Lagrange(S, pick(s)) * y[pick(s)])) % P
    <3>1. pick(s) \in S /\ pick(s) \in Field /\ f[s \ {pick(s)}] \in Field
      BY <2>1
    <3> HIDE DEF t, pick
    <3>2. f[s] = t[<<pick(s), f[s \ {pick(s)}]>>]
      <4>1. f[s] = u[<<pick(s), f[s \ {pick(s)}]>>]
        BY <1>3, <2>1 DEF Repeats, pick
      <4> QED BY <4>1, <3>1
    <3> QED BY <3>1, <3>2, <1>1
  <2>2. f[{}] = 0
    BY <1>3 DEF Repeats
  <2> HIDE DEF t, u, pick
  <2> QED BY <2>1, <2>2
<1>5. iter = [s \in SUBSET S |->
                IF s = {} THEN 0
                ELSE U16(iter[s \ {pick(s)}] + U16(Lagrange(S, pick(s)) * y[pick(s)])) % P]
  BY <1>4
<1>6. Combine(S) = iter[S]
  BY Zenon DEF Combine, FoldSet, MapThenFoldSet
<1>7. iter[S] \in Field /\ Cong(iter[S], Fold("plus", h)[S])
  <2>1. t \in [Field \X Field -> Field] /\ h \in [Field -> Int] /\ 0 \in Field
    <3>1. h \in [Field -> Int]
      <4>1. ASSUME NEW x \in S PROVE Lagrange(S, x) * y[x] \in Int
        <5>1. Lagrange(S, x) \in Int /\ y[x] \in Int
          BY FieldType
        <5> QED BY <5>1
      <4> QED BY <4>1
    <3>2. t \in [Field \X Field -> Field]
      <4>1. ASSUME NEW p \in Field \X Field PROVE t[p] \in Field
        <5>1. CASE p[1] \in S
          <6>1. p = <<p[1], p[2]>> /\ p[2] \in Field
            OBVIOUS
          <6> HIDE DEF t
          <6> QED BY <1>1, <5>1, <6>1
        <5>2. CASE p[1] \notin S
          BY <5>2, FieldType
        <5> QED BY <5>1, <5>2
      <4> QED BY <4>1
    <3> QED BY <3>1, <3>2, FieldType
  <2>2. \A x \in S : \A acc \in Field : Cong(t[<<x, acc>>], Joined("plus", h[x], acc))
    <3>1. \A x \in S : h[x] = Lagrange(S, x) * y[x]
      OBVIOUS
    <3> HIDE DEF t, h
    <3> QED BY <1>1, <3>1 DEF Joined
  <2>3. 0 = Neutral("plus")
    BY DEF Neutral
  <2>4. iter[{}] = 0
    <3> HIDE DEF iter
    <3> QED BY <1>5
  <2>5. ASSUME NEW s \in SUBSET S, s # {}
        PROVE  \E x \in s : iter[s \ {x}] \in Field => iter[s] = t[<<x, iter[s \ {x}]>>]
    <3>1. pick(s) \in s /\ pick(s) \in S
      BY <2>5
    <3> HIDE DEF pick, t, iter
    <3>2. iter[s] = U16(iter[s \ {pick(s)}] + U16(Lagrange(S, pick(s)) * y[pick(s)])) % P
      BY <1>5, <2>5
    <3>3. iter[s \ {pick(s)}] \in Field => iter[s] = t[<<pick(s), iter[s \ {pick(s)}]>>]
      BY <3>1, <3>2, <1>1
    <3> QED BY <3>1, <3>3
  <2> HIDE DEF iter, t, h
  <2>6. Table(t, S, "plus", h)
    BY <2>1, <2>2, Zenon DEF Table
  <2>7. Follows(iter, S, 0, t)
    BY <2>4, <2>5, Zenon DEF Follows
  <2> QED BY <2>1, <2>3, <2>6, <2>7, FoldValue, Zenon
<1> QED BY <1>6, <1>7 DEF Sum

-----------------------------------------------------------------------------
(***************************************************************************)
(* gf_inv: powers by squaring, and Fermat's theorem.                       *)
(***************************************************************************)
Squared(a) == U16(a * a) % P

\* The table f is row e of Power.
Raised(f, e) ==
  f[e] = [a \in Field |-> IF e = 0 THEN 1
                          ELSE IF e % 2 = 1 THEN U16(f[e \div 2][Squared(a)] * a) % P
                          ELSE f[e \div 2][Squared(a)]]

\* Every row is there, by induction on the exponent.
LEMMA PowerExists ==
  /\ Power \in [0..P -> [Field -> Field]]
  /\ \A e \in 0..P : Raised(Power, e)
<1> DEFINE E == 0..P
           Fs == [E -> [Field -> Field]]
           Upto(n) == \E f \in Fs : \A e \in E : e <= n => Raised(f, e)
           T == { n \in Nat : Upto(n) }
           next(f) == [e \in E |->
             [a \in Field |-> IF e = 0 THEN 1
                              ELSE IF e % 2 = 1 THEN U16(f[e \div 2][Squared(a)] * a) % P
                              ELSE f[e \div 2][Squared(a)]]]
<1>a. \A a \in Field : Squared(a) \in Field
  <2>1. 0 \in Octet
    BY DEF Octet
  <2> QED BY <2>1, Steps, Zenon DEF Squared
<1>b. \A a, b \in Field : U16(a * b) % P \in Field
  <2>1. 0 \in Octet
    BY DEF Octet
  <2> QED BY <2>1, Steps, Zenon
<1>c. \A e \in E : e # 0 => e \div 2 \in E /\ e \div 2 < e
  BY PrimeType
<1>d. ASSUME NEW f \in Fs PROVE next(f) \in Fs
  <2>1. ASSUME NEW e \in E, NEW a \in Field
        PROVE  (IF e = 0 THEN 1
                ELSE IF e % 2 = 1 THEN U16(f[e \div 2][Squared(a)] * a) % P
                ELSE f[e \div 2][Squared(a)]) \in Field
    <3>1. CASE e = 0
      BY <3>1, FieldType
    <3>2. CASE e # 0
      <4>1. Squared(a) \in Field /\ e \div 2 \in E
        BY <1>a, <1>c, <3>2
      <4>2. f[e \div 2] \in [Field -> Field]
        BY <4>1
      <4>3. f[e \div 2][Squared(a)] \in Field
        BY <4>1, <4>2
      <4>4. U16(f[e \div 2][Squared(a)] * a) % P \in Field
        BY <4>3, <1>b
      <4> QED BY <3>2, <4>3, <4>4
    <3> QED BY <3>1, <3>2
  <2> QED BY <2>1
<1>1. 0 \in T
  <2> DEFINE f == [e \in E |-> [a \in Field |-> 1]]
  <2>1. f \in Fs
    BY FieldType
  <2>2. ASSUME NEW e \in E, e <= 0 PROVE Raised(f, e)
    <3>1. e = 0 /\ f[e] = [a \in Field |-> 1]
      BY <2>2
    <3> HIDE DEF f
    <3> QED BY <3>1 DEF Raised
  <2> HIDE DEF f
  <2> QED BY <2>1, <2>2
<1>2. ASSUME NEW n \in T PROVE n + 1 \in T
  <2>1. PICK f \in Fs : \A e \in E : e <= n => Raised(f, e)
    OBVIOUS
  <2> DEFINE g == next(f)
  <2>2. g \in Fs
    BY <1>d
  <2>3. n \in Nat
    OBVIOUS
  <2>4. ASSUME NEW e \in E, e <= n PROVE g[e] = f[e]
    BY <2>1, <2>4 DEF Raised
  <2>5. ASSUME NEW e \in E, e <= n + 1 PROVE Raised(g, e)
    <3>1. CASE e = 0
      BY <3>1 DEF Raised
    <3>2. CASE e # 0
      <4>1. e \div 2 \in E /\ e \div 2 <= n
        BY <1>c, <2>3, <2>5, <3>2
      <4>2. g[e \div 2] = f[e \div 2]
        <5> HIDE DEF g
        <5> QED BY <4>1, <2>4
      <4> QED BY <3>2, <4>2 DEF Raised
    <3> QED BY <3>1, <3>2
  <2>6. Upto(n + 1)
    <3> HIDE DEF g
    <3> QED BY <2>2, <2>5
  <2> HIDE DEF Upto
  <2> QED BY <2>3, <2>6
<1>3. P \in T
  <2>1. T \in SUBSET Nat
    OBVIOUS
  <2>2. P \in Nat
    BY PrimeType
  <2> HIDE DEF T
  <2> QED BY <2>1, <2>2, <1>1, <1>2, SetInduction
<1>4. PICK f \in Fs : \A e \in E : Raised(f, e)
  <2>1. PICK f \in Fs : \A e \in E : e <= P => Raised(f, e)
    BY <1>3
  <2>2. \A e \in E : e <= P
    BY PrimeType
  <2> QED BY <2>1, <2>2
<1> DEFINE Body(p) == [e \in 0..P |->
             [a \in 0..(P - 1) |->
               IF e = 0 THEN 1
               ELSE LET rest == p[e \div 2][U16(a * a) % P]
                    IN  IF e % 2 = 1 THEN U16(rest * a) % P ELSE rest]]
<1>5. ASSUME NEW e \in E PROVE f[e] = Body(f)[e]
  <2>1. Raised(f, e)
    BY <1>4
  <2> QED BY <2>1, Zenon DEF Raised, Squared, Field
<1>6. f = Body(f)
  <2>1. f = [e \in E |-> f[e]]
    BY <1>4
  <2>2. Body(f) = [e \in E |-> Body(f)[e]]
    BY DEF Body
  <2> HIDE DEF Body
  <2> QED BY <2>1, <2>2, <1>5
<1>7. Power = Body(Power)
  BY <1>6 DEF Power
<1>8. \A e \in E : Raised(Power, e)
  <2>1. ASSUME NEW e \in E PROVE Raised(Power, e)
    <3>1. Power[e] = Body(Power)[e]
      BY <1>7
    <3> QED BY <3>1, Zenon DEF Raised, Squared, Field
  <2> QED BY <2>1
<1> HIDE DEF Body
<1> DEFINE Typed(n) == \A e \in E : e <= n => Power[e] \in [Field -> Field]
           V == { n \in Nat : Typed(n) }
<1>9. ASSUME NEW e \in E, e # 0 => Power[e \div 2] \in [Field -> Field]
      PROVE  Power[e] \in [Field -> Field]
  <2>1. ASSUME NEW a \in Field
        PROVE  (IF e = 0 THEN 1
                ELSE IF e % 2 = 1 THEN U16(Power[e \div 2][Squared(a)] * a) % P
                ELSE Power[e \div 2][Squared(a)]) \in Field
    <3>1. CASE e = 0
      BY <3>1, FieldType
    <3>2. CASE e # 0
      <4>1. Squared(a) \in Field /\ Power[e \div 2] \in [Field -> Field]
        BY <1>a, <1>9, <3>2
      <4>2. Power[e \div 2][Squared(a)] \in Field
        BY <4>1
      <4>3. U16(Power[e \div 2][Squared(a)] * a) % P \in Field
        BY <4>2, <1>b
      <4> QED BY <3>2, <4>2, <4>3
    <3> QED BY <3>1, <3>2
  <2>2. Raised(Power, e)
    BY <1>8
  <2> QED BY <2>1, <2>2 DEF Raised
<1>10. 0 \in V
  <2>1. ASSUME NEW e \in E, e <= 0 PROVE Power[e] \in [Field -> Field]
    <3>1. e = 0
      BY <2>1
    <3> QED BY <3>1, <1>9
  <2> QED BY <2>1
<1>11. ASSUME NEW n \in V PROVE n + 1 \in V
  <2>1. n \in Nat /\ Typed(n)
    OBVIOUS
  <2>2. ASSUME NEW e \in E, e <= n + 1 PROVE Power[e] \in [Field -> Field]
    <3>1. e # 0 => e \div 2 \in E /\ e \div 2 <= n
      BY <1>c, <2>1, <2>2
    <3> QED BY <2>1, <3>1, <1>9
  <2> QED BY <2>1, <2>2
<1>12. P \in V
  <2>1. V \in SUBSET Nat
    OBVIOUS
  <2>2. P \in Nat
    BY PrimeType
  <2> HIDE DEF V
  <2> QED BY <2>1, <2>2, <1>10, <1>11, SetInduction
<1>13. \A e \in E : Power[e] \in [Field -> Field]
  <2>1. \A e \in E : e <= P
    BY PrimeType
  <2> QED BY <2>1, <1>12
<1>14. Power = [e \in E |-> Power[e]]
  <2>1. \A p : Body(p) = [e \in E |-> Body(p)[e]]
    BY DEF Body
  <2> QED BY <2>1, <1>7
<1>15. Power \in [E -> [Field -> Field]]
  BY <1>13, <1>14
<1> QED BY <1>8, <1>15

\* The table's rows are powers: each is the one before times its base.
LEMMA PowerNext ==
  ASSUME NEW n \in Nat, n < P, NEW a \in Field
  PROVE  /\ Power[n + 1][a] \in Field /\ Power[n][a] \in Field
         /\ Cong(Power[n + 1][a], a * Power[n][a])
<1> DEFINE Next1(m) == \A b \in Field : Cong(Power[m + 1][b], b * Power[m][b])
           Upto(m) == \A k \in 0..m : k < P => Next1(k)
           T == { m \in Nat : Upto(m) }
<1>a. ASSUME NEW e \in 0..P, NEW b \in Field
      PROVE  /\ Power[e][b] \in Field /\ Power[e][b] \in Int /\ b \in Int
             /\ Squared(b) \in Field /\ Squared(b) \in Int /\ Cong(Squared(b), b * b)
  <2>1. 0 \in Octet
    BY DEF Octet
  <2>2. Squared(b) \in Field /\ Cong(Squared(b), b * b)
    BY <2>1, Steps, Zenon DEF Squared
  <2>3. Power[e][b] \in Field
    BY PowerExists
  <2> QED BY <2>2, <2>3, FieldType
<1>b. \A b \in Field : Power[0][b] = 1
  <2>1. 0 \in 0..P
    BY PrimeType
  <2> QED BY <2>1, PowerExists DEF Raised
<1>c. ASSUME NEW e \in 0..P, NEW b \in Field, e # 0, e % 2 = 0
      PROVE  Power[e][b] = Power[e \div 2][Squared(b)]
  BY <1>c, PowerExists DEF Raised
<1>d. ASSUME NEW e \in 0..P, NEW b \in Field, e # 0, e % 2 = 1
      PROVE  Cong(Power[e][b], b * Power[e \div 2][Squared(b)])
  <2>1. Power[e][b] = U16(Power[e \div 2][Squared(b)] * b) % P
    BY <1>d, PowerExists DEF Raised
  <2>2. e \div 2 \in 0..P /\ 0 \in Octet
    BY PrimeType DEF Octet
  <2>3. Power[e \div 2][Squared(b)] \in Field
    BY <1>a, <2>2
  <2> QED BY <2>1, <2>2, <2>3, Steps, Zenon
<1>1. ASSUME NEW m \in Nat, m < P, \A k \in Nat : k < m => Next1(k)
      PROVE  Next1(m)
  <2>1. SUFFICES ASSUME NEW b \in Field PROVE Cong(Power[m + 1][b], b * Power[m][b])
    OBVIOUS
  <2>2. PICK q \in Field : q = Squared(b) /\ q \in Int /\ b \in Int /\ Cong(q, b * b)
    <3>1. 0 \in 0..P
      BY PrimeType
    <3> QED BY <3>1, <1>a, Zenon
  <2>3. m \in 0..P /\ m + 1 \in 0..P /\ m + 1 # 0
    BY <1>1, PrimeType
  <2>4. CASE m = 0
    <3>1. (m + 1) % 2 = 1 /\ (m + 1) \div 2 = 0
      BY <2>4
    <3>2. Power[0][q] = 1 /\ Power[m][b] = 1
      BY <1>b, <2>4
    <3>3. Cong(Power[m + 1][b], b * Power[0][q])
      BY <1>d, <2>2, <2>3, <3>1
    <3> QED BY <3>2, <3>3
  <2>5. CASE m # 0 /\ m % 2 = 0
    <3>1. PICK k \in Nat : m \div 2 = k /\ (m + 1) \div 2 = k /\ (m + 1) % 2 = 1
      BY <2>5
    <3>2. Power[m][b] = Power[k][q]
      BY <1>c, <2>2, <2>3, <2>5, <3>1
    <3>3. Cong(Power[m + 1][b], b * Power[k][q])
      BY <1>d, <2>2, <2>3, <3>1
    <3> QED BY <3>2, <3>3
  <2>6. CASE m % 2 = 1
    <3>1. PICK k \in Nat : m \div 2 = k /\ (m + 1) \div 2 = k + 1 /\ (m + 1) % 2 = 0 /\ k < m
      BY <2>6
    <3>2. Power[m + 1][b] = Power[k + 1][q]
      BY <1>c, <2>2, <2>3, <3>1
    <3>3. Cong(Power[m][b], b * Power[k][q])
      BY <1>d, <2>2, <2>3, <2>6, <3>1
    <3>4. Cong(Power[k + 1][q], q * Power[k][q])
      <4>1. Next1(k)
        <5> HIDE DEF Next1
        <5> QED BY <1>1, <3>1
      <4> QED BY <4>1
    <3>5. PICK p \in Int : p = Power[k][q]
      <4>1. k \in 0..P
        BY <2>3, <3>1, PrimeType
      <4> QED BY <4>1, <1>a, Zenon
    <3>6. Power[k + 1][q] \in Int /\ Power[m][b] \in Int
      <4>1. k + 1 \in 0..P
        BY <2>3, <3>1, PrimeType
      <4> QED BY <4>1, <2>3, <1>a
    <3>7. Cong(q * p, (b * b) * p)
      BY <2>2, CongTimes, CongRefl
    <3>8. Cong(b * (b * p), b * Power[m][b])
      <4>1. Cong(b * p, Power[m][b])
        <5>1. Cong(Power[m][b], b * p) /\ b * p \in Int
          BY <2>2, <3>3, <3>5
        <5> QED BY <5>1, <3>6, CongSym, Zenon
      <4>2. Cong(b, b) /\ b * p \in Int
        BY <2>2, CongRefl
      <4> QED BY <4>1, <4>2, <2>2, <3>6, CongTimes, Zenon
    <3>9. (b * b) * p = b * (b * p) /\ q * p \in Int /\ b * (b * p) \in Int /\ b * Power[m][b] \in Int
      BY <2>2, <3>6
    <3>10. Cong(Power[k + 1][q], b * (b * p))
      BY <3>4, <3>5, <3>6, <3>7, <3>9, CongTrans, Zenon
    <3>11. Cong(Power[k + 1][q], b * Power[m][b])
      BY <3>6, <3>8, <3>9, <3>10, CongTrans, Zenon
    <3> QED BY <3>2, <3>11
  <2>7. m % 2 = 0 \/ m % 2 = 1
    OBVIOUS
  <2> QED BY <2>4, <2>5, <2>6, <2>7
<1>2. 0 \in T
  <2>1. ASSUME NEW k \in 0..0, k < P PROVE Next1(k)
    <3>1. k = 0
      OBVIOUS
    <3> HIDE DEF Next1
    <3> QED BY <2>1, <3>1, <1>1
  <2> QED BY <2>1
<1>3. ASSUME NEW m \in T PROVE m + 1 \in T
  <2> HIDE DEF Next1
  <2>1. m \in Nat /\ Upto(m)
    OBVIOUS
  <2>2. ASSUME NEW k \in 0..(m + 1), k < P PROVE Next1(k)
    <3>1. CASE k <= m
      BY <2>1, <2>2, <3>1
    <3>2. CASE k = m + 1
      <4>1. \A i \in Nat : i < k => i \in 0..m /\ i < P
        BY <2>1, <2>2, <3>2, PrimeType
      <4> QED BY <4>1, <2>1, <2>2, <1>1
    <3> QED BY <2>1, <3>1, <3>2
  <2> QED BY <2>1, <2>2
<1>4. Next1(n)
  <2>1. T \in SUBSET Nat
    OBVIOUS
  <2>2. n \in T
    <3> HIDE DEF T
    <3> QED BY <2>1, <1>2, <1>3, SetInduction
  <2> HIDE DEF Next1
  <2> QED BY <2>2
<1>5. n \in 0..P /\ n + 1 \in 0..P
  BY PrimeType
<1> QED BY <1>4, <1>5, <1>a

\* The product of the elements of s, each times a, is as many powers of a times
\* the product of s.
LEMMA ProductScaled ==
  ASSUME NEW a \in Field, NEW s \in SUBSET Field
  PROVE  /\ Cardinality(s) \in 0..P
         /\ Cong(Prod([x \in Field |-> a * x], s), Power[Cardinality(s)][a] * Prod([x \in Field |-> x], s))
<1> DEFINE h == [x \in Field |-> x]
           g == [x \in Field |-> a * x]
           Pw(r) == Power[Cardinality(r)][a]
           Fine(r) == Cong(Prod(g, r), Pw(r) * Prod(h, r))
           C == { r \in SUBSET Field : Fine(r) }
<1>a. h \in [Field -> Int] /\ g \in [Field -> Int]
  BY FieldType
<1>b. ASSUME NEW r \in SUBSET Field
      PROVE  /\ Cardinality(r) \in 0..P /\ Pw(r) \in Int
             /\ Prod(h, r) \in Int /\ Prod(g, r) \in Int
  <2>1. Cardinality(r) \in Nat /\ Cardinality(r) <= P
    <3>1. Cardinality(Field) = P
      BY FS_Interval, PrimeType DEF Field
    <3>2. Cardinality(r) <= Cardinality(Field)
      BY FieldType, FS_Subset
    <3> QED BY <3>1, <3>2, FieldType
  <2>2. Cardinality(r) \in 0..P
    BY <2>1, PrimeType
  <2>3. Power[Cardinality(r)][a] \in Field
    BY <2>2, PowerExists
  <2>4. Prod(h, r) \in Int /\ Prod(g, r) \in Int
    <3> HIDE DEF h, g
    <3> QED BY <1>a, ProdFacts
  <2> QED BY <2>2, <2>3, <2>4, FieldType
<1>1. {} \in C
  <2>1. Prod(h, {}) = 1 /\ Prod(g, {}) = 1
    <3> HIDE DEF h, g
    <3> QED BY <1>a, ProdFacts
  <2>2. Cardinality({}) = 0
    BY FS_EmptySet
  <2>3. Power[0][a] = 1
    <3>1. 0 \in 0..P
      BY PrimeType
    <3> QED BY <3>1, PowerExists DEF Raised
  <2>4. Cong(1, 1 * 1)
    BY CongRefl
  <2> HIDE DEF h, g
  <2> QED BY <2>1, <2>2, <2>3, <2>4
<1>2. ASSUME NEW r \in SUBSET Field, r # {}, \A x \in r : r \ {x} \in C
      PROVE  r \in C
  <2>1. PICK x \in r : TRUE
    BY <1>2
  <2> DEFINE q == r \ {x}
  <2>2. q \in SUBSET Field /\ Fine(q) /\ x \in Field
    <3> HIDE DEF Fine
    <3> QED BY <1>2
  <2>3. Cardinality(r) = Cardinality(q) + 1
    BY FieldType, FS_RemoveElement, <1>b
  <2>4. Prod(h, r) = x * Prod(h, q) /\ Prod(g, r) = (a * x) * Prod(g, q)
    <3>1. h[x] = x /\ g[x] = a * x
      BY <2>2
    <3> HIDE DEF h, g
    <3>2. Prod(h, r) = h[x] * Prod(h, q) /\ Prod(g, r) = g[x] * Prod(g, q)
      BY <1>a, ProdFacts
    <3> QED BY <3>1, <3>2
  <2>5. Cong(Pw(r), a * Pw(q))
    <3>1. Cardinality(q) \in Nat /\ Cardinality(q) < P
      <4> HIDE DEF q, Fine, Pw, h, g
      <4>1. Cardinality(r) \in 0..P
        BY <1>b
      <4>2. Cardinality(q) \in 0..P
        BY <1>b, <2>2
      <4> QED BY <4>1, <4>2, <2>3, PrimeType
    <3> HIDE DEF q
    <3> QED BY <3>1, <2>3, PowerNext
  <2>6. PICK c \in Int, d \in Int, e \in Int, f \in Int :
          c = Pw(r) /\ d = Pw(q) /\ e = Prod(h, q) /\ f = Prod(g, q)
    <3> HIDE DEF Pw, h, g, q
    <3> QED BY <2>2, <1>b, Zenon
  <2>7. Cong(f, d * e) /\ Cong(c, a * d)
    <3> HIDE DEF Pw, h, g, q
    <3> QED BY <2>2, <2>5, <2>6 
  <2>8. a \in Int /\ x \in Int
    BY FieldType
  <2>9. Cong((a * x) * f, c * (x * e))
    <3>1. Cong(a * d, c)
      <4>1. a * d \in Int
        BY <2>8
      <4> QED BY <4>1, <2>7, CongSym
    <3>2. Cong((a * d) * (x * e), c * (x * e))
      <4>1. a * d \in Int /\ x * e \in Int
        BY <2>8
      <4>2. Cong(x * e, x * e)
        BY <4>1, CongRefl, Zenon
      <4> QED BY <4>1, <4>2, <3>1, CongTimes, Zenon
    <3>3. Cong((a * x) * f, (a * x) * (d * e))
      BY <2>7, <2>8, CongTimes, CongRefl
    <3>4. (a * x) * (d * e) = (a * d) * (x * e)
      BY <2>8
    <3>5. (a * x) * f \in Int /\ (a * d) * (x * e) \in Int /\ c * (x * e) \in Int
      BY <2>8
    <3> QED BY <3>2, <3>3, <3>4, <3>5, CongTrans, Zenon
  <2>10. Fine(r)
    <3> HIDE DEF Pw, h, g, q
    <3> QED BY <2>4, <2>6, <2>9
  <2> HIDE DEF Fine
  <2> QED BY <2>10
<1>3. s \in C
  <2> HIDE DEF C
  <2> QED BY <1>1, <1>2, FieldSetInduction
<1> QED BY <1>3, <1>b

\* No product of elements that are not zero is zero.
LEMMA ProductNotZero ==
  ASSUME NEW h \in [Field -> Int], NEW s \in SUBSET Field, \A x \in s : ~Cong(h[x], 0)
  PROVE  ~Cong(Prod(h, s), 0)
<1> DEFINE C == { r \in SUBSET Field : r \in SUBSET s => ~Cong(Prod(h, r), 0) }
<1>1. {} \in C
  <2>1. Prod(h, {}) = 1
    BY ProdFacts
  <2>2. ~Cong(1, 0)
    <3>1. 1 \in Field /\ 0 \in Field
      BY FieldType
    <3>2. 1 # 0
      OBVIOUS
    <3> QED BY <3>1, <3>2, CongEqual, Zenon
  <2> QED BY <2>1, <2>2
<1>2. ASSUME NEW r \in SUBSET Field, r # {}, \A x \in r : r \ {x} \in C
      PROVE  r \in C
  <2>1. SUFFICES ASSUME r \in SUBSET s, Cong(Prod(h, r), 0) PROVE FALSE
    OBVIOUS
  <2>2. PICK x \in r : TRUE
    BY <1>2
  <2> DEFINE q == r \ {x}
  <2>3. q \in SUBSET Field /\ x \in Field /\ ~Cong(Prod(h, q), 0) /\ ~Cong(h[x], 0)
    BY <1>2, <2>1
  <2>4. Prod(h, r) = h[x] * Prod(h, q) /\ Prod(h, q) \in Int /\ h[x] \in Int
    BY <2>3, ProdFacts
  <2>5. Cong(h[x] * Prod(h, q), h[x] * 0)
    <3>1. h[x] * 0 = 0
      BY <2>4
    <3> QED BY <3>1, <2>1, <2>4
  <2>6. Cong(Prod(h, q), 0)
    <3>1. 0 \in Int
      OBVIOUS
    <3> QED BY <3>1, <2>3, <2>4, <2>5, Strike, Zenon
  <2> QED BY <2>3, <2>6
<1>3. s \in C
  <2> HIDE DEF C
  <2> QED BY <1>1, <1>2, FieldSetInduction
<1> QED BY <1>3

\* Multiplying by an element that is not zero permutes the others.
LEMMA ProductMoved ==
  ASSUME NEW a \in Field, a # 0, NEW s \in SUBSET Field
  PROVE  Cong(Prod([x \in Field |-> a * x], s), Prod([x \in Field |-> x], { (a * x) % P : x \in s }))
<1> DEFINE h == [x \in Field |-> x]
           g == [x \in Field |-> a * x]
           to(x) == (a * x) % P
           Image(r) == { to(x) : x \in r }
           Fine(r) == Cong(Prod(g, r), Prod(h, Image(r)))
           C == { r \in SUBSET Field : Fine(r) }
<1>a. h \in [Field -> Int] /\ g \in [Field -> Int]
  BY FieldType
<1>b. ASSUME NEW x \in Field
      PROVE  a * x \in Int /\ to(x) \in Field /\ to(x) \in Int /\ Cong(a * x, to(x))
  <2>1. a * x \in Int
    BY FieldType
  <2>2. to(x) \in Field /\ Cong(a * x, to(x))
    BY <2>1, CongMod, Zenon
  <2> QED BY <2>1, <2>2, FieldType
<1>c. ~Cong(a, 0)
  BY FieldType, CongEqual
<1>d. ASSUME NEW x \in Field, NEW z \in Field, to(x) = to(z) PROVE x = z
  <2>1. x \in Int /\ z \in Int /\ a \in Int
    BY FieldType
  <2>2. Cong(a * x, to(z)) /\ Cong(to(z), a * z)
    BY <1>b, <1>d, CongSym, Zenon
  <2>3. Cong(a * x, a * z)
    BY <1>b, <2>2, CongTrans, Zenon
  <2>4. Cong(x, z)
    BY <1>c, <2>1, <2>3, Strike, Zenon
  <2> QED BY <2>4, CongEqual, Zenon
<1> HIDE DEF to
<1>1. {} \in C
  <2>1. Prod(h, {}) = 1 /\ Prod(g, {}) = 1
    <3> HIDE DEF h, g
    <3> QED BY <1>a, ProdFacts
  <2>2. Image({}) = {}
    OBVIOUS
  <2>3. Cong(1, 1)
    BY CongRefl
  <2> HIDE DEF h, g, Image
  <2> QED BY <2>1, <2>2, <2>3
<1>2. ASSUME NEW r \in SUBSET Field, r # {}, \A x \in r : r \ {x} \in C
      PROVE  r \in C
  <2>1. PICK x \in r : TRUE
    BY <1>2
  <2> DEFINE q == r \ {x}
  <2>2. q \in SUBSET Field /\ Fine(q) /\ x \in Field
    <3> HIDE DEF Fine
    <3> QED BY <1>2
  <2>3. /\ Image(r) \in SUBSET Field /\ to(x) \in Image(r) /\ Image(q) = Image(r) \ {to(x)}
        /\ Image(q) \in SUBSET Field
    <3>1. Image(r) \in SUBSET Field /\ to(x) \in Image(r)
      BY <1>b
    <3>2. ASSUME NEW z \in q PROVE to(z) # to(x)
      BY <1>d
    <3>3. Image(q) = Image(r) \ {to(x)}
      BY <3>2
    <3> QED BY <3>1, <3>3
  <2>4. /\ Prod(h, Image(r)) = to(x) * Prod(h, Image(q))
        /\ Prod(g, r) = (a * x) * Prod(g, q)
        /\ Prod(h, Image(q)) \in Int /\ Prod(g, q) \in Int
    <3>1. h[to(x)] = to(x) /\ g[x] = a * x
      BY <1>b
    <3> HIDE DEF h, g, Image, q
    <3>2. Prod(h, Image(r)) = h[to(x)] * Prod(h, Image(r) \ {to(x)}) /\ Prod(h, Image(q)) \in Int
      BY <1>a, <2>3, ProdFacts
    <3>3. Prod(g, r) = g[x] * Prod(g, q) /\ Prod(g, q) \in Int
      BY <1>a, <2>2, ProdFacts DEF q
    <3> QED BY <3>1, <3>2, <3>3, <2>3
  <2>5. Fine(r)
    <3> HIDE DEF h, g, Image, q
    <3>1. Cong((a * x) * Prod(g, q), to(x) * Prod(h, Image(q)))
      BY <1>b, <2>2, <2>4, CongTimes, Zenon
    <3> QED BY <3>1, <2>4
  <2> HIDE DEF Fine
  <2> QED BY <2>5
<1>3. s \in C
  <2> HIDE DEF C
  <2> QED BY <1>1, <1>2, FieldSetInduction
<1>4. Fine(s)
  BY <1>3
<1> QED BY <1>4 DEF to

\* Fermat: gf_inv inverts.
LEMMA Inverts ==
  ASSUME NEW a \in Field, a # 0
  PROVE  GfInv[a] \in Field /\ Cong(a * GfInv[a], 1)
<1> DEFINE G == Field \ {0}
           h == [x \in Field |-> x]
           N == Prod(h, G)
<1>a. P \in Int /\ P >= 3
  BY PrimeType
<1>1. GfInv[a] \in Field /\ GfInv[a] \in Int /\ Power[P - 1][a] \in Int /\ Cong(Power[P - 1][a], a * GfInv[a])
  <2>1. P - 2 \in Nat /\ P - 2 < P /\ (P - 2) + 1 = P - 1
    BY <1>a
  <2>2. /\ Power[(P - 2) + 1][a] \in Field /\ Power[P - 2][a] \in Field
        /\ Cong(Power[(P - 2) + 1][a], a * Power[P - 2][a])
    BY <2>1, PowerNext, Zenon
  <2> QED BY <2>1, <2>2, FieldType DEF GfInv
<1>2. Cardinality(G) = P - 1
  <2>1. Cardinality(Field) = P
    BY FS_Interval, PrimeType DEF Field
  <2> QED BY <2>1, FieldType, FS_RemoveElement
<1>3. h \in [Field -> Int] /\ N \in Int
  <2>1. h \in [Field -> Int]
    BY FieldType
  <2> HIDE DEF h
  <2> QED BY <2>1, ProdFacts
<1>4. ~Cong(N, 0)
  <2>1. \A x \in G : ~Cong(h[x], 0)
    BY FieldType, CongEqual
  <2> HIDE DEF h
  <2> QED BY <2>1, <1>3, ProductNotZero
<1>5. { (a * x) % P : x \in G } = G
  <2>a. ~Cong(a, 0) /\ a \in Int /\ 0 \in Int
    BY FieldType, CongEqual
  <2>b. ASSUME NEW x \in Field
        PROVE  /\ x \in Int /\ a * x \in Int /\ (a * x) % P \in Field /\ (a * x) % P \in Int
               /\ Cong(a * x, (a * x) % P)
    <3>1. x \in Int /\ a * x \in Int
      BY FieldType
    <3>2. (a * x) % P \in Field /\ Cong(a * x, (a * x) % P)
      BY <3>1, CongMod, Zenon
    <3> QED BY <3>1, <3>2, FieldType
  <2>1. ASSUME NEW x \in G PROVE (a * x) % P \in G
    <3>1. SUFFICES ASSUME (a * x) % P = 0 PROVE FALSE
      BY <2>b
    <3>2. Cong(a * x, 0) /\ a * 0 = 0
      BY <2>a, <2>b, <3>1
    <3>3. Cong(x, 0)
      BY <2>a, <2>b, <3>2, Strike
    <3> QED BY <3>3, CongEqual, FieldType
  <2>2. ASSUME NEW z \in G PROVE \E x \in G : z = (a * x) % P
    <3>1. PICK b \in Int : Cong(a * b, 1)
      BY <2>a, InverseExists, Zenon
    <3>2. z \in Int /\ b * z \in Int
      BY FieldType
    <3>3. PICK x \in Field : Cong(b * z, x)
      BY <3>2, CongMod, Zenon
    <3>4. x \in Int /\ a * x \in Int /\ a * b \in Int
      BY <2>a, <2>b
    <3>5. Cong(a * x, z)
      <4>1. Cong(a * (b * z), a * x)
        BY <2>a, <3>2, <3>3, <3>4, CongTimes, CongRefl
      <4>2. Cong((a * b) * z, 1 * z)
        BY <3>1, <3>2, <3>4, CongTimes, CongRefl
      <4>3. a * (b * z) = (a * b) * z /\ 1 * z = z /\ a * (b * z) \in Int
        BY <2>a, <3>2
      <4>4. Cong(a * x, a * (b * z))
        BY <4>1, <4>3, <3>4, CongSym, Zenon
      <4> QED BY <4>2, <4>3, <4>4, <3>2, <3>4, CongTrans
    <3>6. z = (a * x) % P
      <4>1. Cong(z, a * x)
        BY <3>2, <3>4, <3>5, CongSym, Zenon
      <4>2. Cong(z, (a * x) % P)
        BY <2>b, <3>2, <3>4, <4>1, CongTrans, Zenon
      <4> QED BY <2>b, <4>2, CongEqual
    <3>7. x # 0
      <4>1. SUFFICES ASSUME x = 0 PROVE FALSE
        OBVIOUS
      <4>2. a * x = 0
        BY <2>a, <4>1
      <4>3. Cong(0, z)
        BY <3>5, <4>2
      <4> QED BY <4>3, CongEqual, FieldType
    <3> QED BY <3>6, <3>7
  <2> QED BY <2>1, <2>2
<1>6. Cong(N * Power[P - 1][a], N * 1)
  <2> DEFINE g == [x \in Field |-> a * x]
  <2>1. Cong(Prod(g, G), N)
    <3>1. G \in SUBSET Field
      OBVIOUS
    <3>2. Cong(Prod(g, G), Prod(h, { (a * x) % P : x \in G }))
      BY <3>1, ProductMoved, Zenon
    <3> QED BY <3>2, <1>5
  <2>2. Cong(Prod(g, G), Power[P - 1][a] * N)
    BY <1>2, ProductScaled
  <2>3. Prod(g, G) \in Int
    <3>1. g \in [Field -> Int]
      BY FieldType
    <3> HIDE DEF g
    <3> QED BY <3>1, ProdFacts
  <2> HIDE DEF g, N
  <2>4. N * Power[P - 1][a] = Power[P - 1][a] * N /\ N * 1 = N /\ N * Power[P - 1][a] \in Int
    BY <1>1, <1>3
  <2>5. Cong(N * Power[P - 1][a], Prod(g, G))
    BY <2>2, <2>3, <2>4, CongSym
  <2> QED BY <1>3, <2>1, <2>3, <2>4, <2>5, CongTrans
<1>7. Cong(Power[P - 1][a], 1)
  <2>1. 1 \in Int
    OBVIOUS
  <2> HIDE DEF N
  <2> QED BY <2>1, <1>1, <1>3, <1>4, <1>6, Strike, Zenon
<1>8. a * GfInv[a] \in Int
  BY <1>1, FieldType
<1>9. Cong(a * GfInv[a], Power[P - 1][a])
  BY <1>1, <1>8, CongSym, Zenon
<1> QED BY <1>1, <1>7, <1>8, <1>9, CongTrans

-----------------------------------------------------------------------------
(***************************************************************************)
(* Divided differences.                                                    *)
(***************************************************************************)

\* Sums are linear.
LEMMA SumLinear ==
  ASSUME NEW h \in [Field -> Int], NEW g \in [Field -> Int], NEW k \in [Field -> Int],
         NEW s \in SUBSET Field, NEW a \in Int, NEW b \in Int,
         \A x \in s : Cong(k[x], a * h[x] + b * g[x])
  PROVE  Cong(Sum(k, s), a * Sum(h, s) + b * Sum(g, s))
<1> DEFINE Fine(r) == Cong(Sum(k, r), a * Sum(h, r) + b * Sum(g, r))
           C == { r \in SUBSET Field : r \in SUBSET s => Fine(r) }
<1>1. {} \in C
  <2>1. Sum(h, {}) = 0 /\ Sum(g, {}) = 0 /\ Sum(k, {}) = 0
    BY SumFacts
  <2>2. a * 0 + b * 0 = 0 /\ Cong(0, 0)
    BY CongRefl
  <2> QED BY <2>1, <2>2
<1>2. ASSUME NEW r \in SUBSET Field, r # {}, \A x \in r : r \ {x} \in C
      PROVE  r \in C
  <2>1. SUFFICES ASSUME r \in SUBSET s PROVE Fine(r)
    OBVIOUS
  <2>2. PICK x \in r : TRUE
    BY <1>2
  <2> DEFINE q == r \ {x}
  <2>3. q \in SUBSET Field /\ x \in Field /\ Fine(q) /\ Cong(k[x], a * h[x] + b * g[x])
    <3> HIDE DEF Fine
    <3> QED BY <1>2, <2>1
  <2>4. /\ Sum(h, r) = h[x] + Sum(h, q) /\ Sum(g, r) = g[x] + Sum(g, q) /\ Sum(k, r) = k[x] + Sum(k, q)
        /\ Sum(h, q) \in Int /\ Sum(g, q) \in Int /\ Sum(k, q) \in Int
        /\ h[x] \in Int /\ g[x] \in Int /\ k[x] \in Int
    BY <2>3, SumFacts
  <2> HIDE DEF q
  <2>5. a * h[x] + b * g[x] \in Int /\ a * Sum(h, q) + b * Sum(g, q) \in Int
    BY <2>4
  <2>6. Cong(k[x] + Sum(k, q), (a * h[x] + b * g[x]) + (a * Sum(h, q) + b * Sum(g, q)))
    BY <2>3, <2>4, <2>5, CongPlus, Zenon
  <2>7. (a * h[x] + b * g[x]) + (a * Sum(h, q) + b * Sum(g, q)) = a * (h[x] + Sum(h, q)) + b * (g[x] + Sum(g, q))
    BY <2>4
  <2> QED BY <2>4, <2>6, <2>7, Zenon
<1>3. s \in C
  <2> HIDE DEF C
  <2> QED BY <1>1, <1>2, FieldSetInduction
<1> QED BY <1>3

\* The denominators of an interpolation at the points Y, inverted.
Distances(i) == [x \in Field |-> x - i]
Weight(Y, i) == CHOOSE w \in Int : Cong(w * Prod(Distances(i), Y \ {i}), 1)

\* No denominator is 0, so the inverse is there.
LEMMA WeightIs ==
  ASSUME NEW Y \in SUBSET Field, NEW i \in Field
  PROVE  /\ Weight(Y, i) \in Int
         /\ Prod(Distances(i), Y \ {i}) \in Int /\ Distances(i) \in [Field -> Int]
         /\ ~Cong(Prod(Distances(i), Y \ {i}), 0)
         /\ Cong(Weight(Y, i) * Prod(Distances(i), Y \ {i}), 1)
<1>1. Distances(i) \in [Field -> Int]
  BY FieldType DEF Distances
<1>2. Y \ {i} \in SUBSET Field
  OBVIOUS
<1>3. PICK p \in Int : p = Prod(Distances(i), Y \ {i})
  BY <1>1, <1>2, ProdFacts
<1>4. ~Cong(p, 0)
  <2>1. ASSUME NEW x \in Y \ {i}, Cong(x - i, 0) PROVE FALSE
    <3>1. x \in Int /\ i \in Int /\ x - i \in Int /\ x \in Field
      BY FieldType
    <3>2. Cong((x - i) + i, 0 + i)
      BY <2>1, <3>1, CongPlus, CongRefl
    <3>3. (x - i) + i = x /\ 0 + i = i
      BY <3>1
    <3> QED BY <3>1, <3>2, <3>3, CongEqual
  <2>2. \A x \in Y \ {i} : ~Cong(Distances(i)[x], 0)
    BY <2>1 DEF Distances
  <2> QED BY <1>1, <1>2, <1>3, <2>2, ProductNotZero
<1>5. PICK w \in Int : Cong(p * w, 1)
  BY <1>4, InverseExists, Zenon
<1>6. p * w = w * p
  OBVIOUS
<1>7. Cong(w * Prod(Distances(i), Y \ {i}), 1)
  BY <1>3, <1>5, <1>6
<1>8. Weight(Y, i) \in Int /\ Cong(Weight(Y, i) * Prod(Distances(i), Y \ {i}), 1)
  BY <1>7 DEF Weight
<1> QED BY <1>1, <1>3, <1>4, <1>8

\* Leaving out a point.
LEMMA WeightDrop ==
  ASSUME NEW Y \in SUBSET Field, NEW a \in Y, NEW i \in Field, i # a
  PROVE  Cong(Weight(Y, i) * (a - i), Weight(Y \ {a}, i))
<1> DEFINE Z == Y \ {a}
<1>1. PICK p \in Int, q \in Int, w \in Int, v \in Int, d \in Int :
        /\ p = Prod(Distances(i), Y \ {i}) /\ q = Prod(Distances(i), Z \ {i})
        /\ w = Weight(Y, i) /\ v = Weight(Z, i) /\ d = a - i
        /\ Cong(w * p, 1) /\ Cong(v * q, 1)
  <2>1. Z \in SUBSET Field /\ a - i \in Int
    BY FieldType
  <2> HIDE DEF Z
  <2> QED BY <2>1, WeightIs, Zenon
<1>2. p = d * q
  <2>1. a \in Y \ {i} /\ (Y \ {i}) \ {a} = Z \ {i} /\ Y \ {i} \in SUBSET Field /\ a \in Field
    OBVIOUS
  <2>2. Prod(Distances(i), Y \ {i}) = Distances(i)[a] * Prod(Distances(i), (Y \ {i}) \ {a})
    <3>1. Distances(i) \in [Field -> Int]
      BY WeightIs, Zenon
    <3> QED BY <2>1, <3>1, ProdFacts
  <2>3. Distances(i)[a] = a - i
    BY <2>1 DEF Distances
  <2> QED BY <1>1, <2>1, <2>2, <2>3
<1>3. Cong((w * p) * v, 1 * v) /\ Cong((w * d) * (v * q), (w * d) * 1)
  <2>1. w * p \in Int /\ 1 \in Int /\ v * q \in Int /\ w * d \in Int
    OBVIOUS
  <2>2. Cong(v, v) /\ Cong(w * d, w * d)
    BY <2>1, CongRefl, Zenon
  <2> QED BY <1>1, <2>1, <2>2, CongTimes, Zenon
<1>4. /\ (w * p) * v = (w * d) * (v * q) /\ 1 * v = v /\ (w * d) * 1 = w * d /\ w * d \in Int
      /\ (w * p) * v \in Int
  BY <1>2
<1>5. Cong(w * d, (w * p) * v)
  BY <1>3, <1>4, CongSym
<1>6. Cong(w * d, v)
  BY <1>3, <1>4, <1>5, CongTrans
<1> QED BY <1>1, <1>6

\* The divided difference of g over the points Y.
Weighed(g, Y) == [x \in Field |-> g[x] * Weight(Y, x)]
Divided(g, Y) == Sum(Weighed(g, Y), Y)
One == [x \in Field |-> 1]

\* Divided differences are numbers.
LEMMA DividedType ==
  ASSUME NEW g \in [Field -> Int], NEW Y \in SUBSET Field
  PROVE  Weighed(g, Y) \in [Field -> Int] /\ Divided(g, Y) \in Int
<1>1. \A x \in Field : Weight(Y, x) \in Int /\ g[x] \in Int
  BY WeightIs
<1>2. Weighed(g, Y) \in [Field -> Int]
  BY <1>1 DEF Weighed
<1> QED BY <1>2, SumFacts DEF Divided

\* What one multiplication by x does to a divided difference.
LEMMA DividedShift ==
  ASSUME NEW Y \in SUBSET Field, NEW a \in Y, NEW c \in Int,
         NEW f \in [Field -> Int], NEW g \in [Field -> Int],
         \A x \in Y : Cong(f[x], c + x * g[x])
  PROVE  Cong(Divided(f, Y), (c * Divided(One, Y) + a * Divided(g, Y)) - Divided(g, Y \ {a}))
<1> DEFINE Z == Y \ {a}
           k == [x \in Field |-> c * Weighed(One, Y)[x] + a * Weighed(g, Y)[x]]
           e == [x \in Field |-> ((x - a) * g[x]) * Weight(Y, x)]
           v == c * Divided(One, Y) + a * Divided(g, Y)
<1>1. /\ Z \in SUBSET Field /\ a \in Field /\ a \in Int /\ a \notin Z
      /\ One \in [Field -> Int] /\ \A x \in Field : One[x] = 1
  BY FieldType DEF One
<1>2. /\ Weighed(f, Y) \in [Field -> Int] /\ Weighed(g, Y) \in [Field -> Int]
      /\ Weighed(One, Y) \in [Field -> Int] /\ Weighed(g, Z) \in [Field -> Int]
      /\ Divided(f, Y) \in Int /\ Divided(g, Y) \in Int /\ Divided(One, Y) \in Int /\ Divided(g, Z) \in Int
  <2> HIDE DEF Z
  <2> QED BY <1>1, DividedType
<1>3. \A x \in Field : /\ x \in Int /\ f[x] \in Int /\ g[x] \in Int /\ Weight(Y, x) \in Int
                       /\ Weight(Z, x) \in Int
                       /\ Weighed(f, Y)[x] = f[x] * Weight(Y, x) /\ Weighed(g, Y)[x] = g[x] * Weight(Y, x)
                       /\ Weighed(One, Y)[x] = Weight(Y, x) /\ Weighed(g, Z)[x] = g[x] * Weight(Z, x)
  <2>1. \A x \in Field : x \in Int /\ f[x] \in Int /\ g[x] \in Int
    BY FieldType
  <2>2. \A x \in Field : Weight(Y, x) \in Int /\ Weight(Z, x) \in Int
    BY WeightIs, <1>1, Zenon
  <2>3. \A x \in Field : 1 * Weight(Y, x) = Weight(Y, x)
    BY <2>2
  <2> HIDE DEF Z
  <2> QED BY <2>1, <2>2, <2>3, <1>1 DEF Weighed
<1>4. k \in [Field -> Int] /\ e \in [Field -> Int] /\ v \in Int
  <2> HIDE DEF Z
  <2> QED BY <1>1, <1>2, <1>3
<1>5. Cong(Sum(k, Y), v)
  <2>1. \A x \in Y : Cong(k[x], c * Weighed(One, Y)[x] + a * Weighed(g, Y)[x])
    <3>1. \A x \in Y : k[x] \in Int /\ k[x] = c * Weighed(One, Y)[x] + a * Weighed(g, Y)[x]
      BY <1>4
    <3> HIDE DEF k
    <3> QED BY <3>1, CongRefl
  <2> HIDE DEF k
  <2> QED BY <2>1, <1>1, <1>2, <1>4, SumLinear DEF Divided
<1>6. Cong(Sum(e, Y), (-1) * Divided(g, Z))
  <2>1. e[a] = 0
    BY <1>1, <1>3
  <2>2. ASSUME NEW x \in Z
        PROVE  Cong(e[x], (-1) * Weighed(g, Z)[x] + 0 * Weighed(g, Z)[x])
    <3>1. x \in Field /\ x \in Y /\ x # a
      OBVIOUS
    <3>2. Cong(Weight(Y, x) * (a - x), Weight(Z, x))
      BY <3>1, WeightDrop
    <3>3. PICK w \in Int, u \in Int, d \in Int, m \in Int :
            /\ w = Weight(Y, x) /\ u = Weight(Z, x) /\ d = a - x /\ m = g[x]
            /\ e[x] = ((x - a) * m) * w /\ Weighed(g, Z)[x] = m * u
      <4>1. a - x \in Int
        BY <1>1, <1>3, <3>1
      <4> HIDE DEF Z
      <4> QED BY <1>3, <3>1, <4>1
    <3>4. Cong(w * d, u) /\ x \in Int
      BY <3>2, <3>3, <1>3, <3>1
    <3>5. Cong((-m) * (w * d), (-m) * u)
      <4>1. -m \in Int /\ w * d \in Int
        OBVIOUS
      <4>2. Cong(-m, -m)
        BY <4>1, CongRefl, Zenon
      <4> QED BY <4>1, <4>2, <3>4, CongTimes, Zenon
    <3>6. (-m) * (w * d) = ((x - a) * m) * w /\ (-m) * u = (-1) * (m * u) + 0 * (m * u)
      <4>1. x - a = -d
        BY <3>3, <3>4, <1>1
      <4>2. (-m) * (w * d) = ((-d) * m) * w
        OBVIOUS
      <4>3. (-m) * u = (-1) * (m * u) + 0 * (m * u)
        OBVIOUS
      <4> QED BY <4>1, <4>2, <4>3
    <3> QED BY <3>3, <3>5, <3>6
  <2>3. Cong(Sum(e, Z), (-1) * Divided(g, Z) + 0 * Divided(g, Z))
    <3> HIDE DEF e, Z
    <3>1. -1 \in Int /\ 0 \in Int
      OBVIOUS
    <3> QED BY <3>1, <2>2, <1>1, <1>2, <1>4, SumLinear, Zenon DEF Divided
  <2>4. Sum(e, Y) = e[a] + Sum(e, Z) /\ Sum(e, Z) \in Int
    <3> HIDE DEF e
    <3> QED BY <1>4, <1>1, SumFacts
  <2>5. (-1) * Divided(g, Z) + 0 * Divided(g, Z) = (-1) * Divided(g, Z)
    <3> HIDE DEF Z
    <3> QED BY <1>2
  <2>6. Sum(e, Y) = Sum(e, Z)
    <3> HIDE DEF e, Z
    <3> QED BY <2>1, <2>4
  <2> HIDE DEF e, Z
  <2> QED BY <2>3, <2>5, <2>6
<1>7. Cong(Divided(f, Y), 1 * Sum(k, Y) + 1 * Sum(e, Y))
  <2>1. ASSUME NEW x \in Y PROVE Cong(Weighed(f, Y)[x], 1 * k[x] + 1 * e[x])
    <3>1. x \in Field /\ x \in Int
      BY <1>3
    <3>2. PICK w \in Int, m \in Int, n \in Int : w = Weight(Y, x) /\ m = g[x] /\ n = f[x]
      BY <1>3, <3>1
    <3>3. k[x] = c * w + a * (m * w) /\ e[x] = ((x - a) * m) * w /\ Weighed(f, Y)[x] = n * w
      BY <1>3, <3>1, <3>2
    <3>4. Cong(n * w, (c + x * m) * w)
      <4>1. Cong(n, c + x * m) /\ c + x * m \in Int
        BY <3>1, <3>2
      <4>2. Cong(w, w)
        BY CongRefl, Zenon
      <4> QED BY <4>1, <4>2, CongTimes, Zenon
    <3>5. (c + x * m) * w = 1 * (c * w + a * (m * w)) + 1 * (((x - a) * m) * w)
      BY <3>1, <1>1
    <3> HIDE DEF k, e
    <3> QED BY <3>3, <3>4, <3>5
  <2> HIDE DEF k, e
  <2>2. 1 \in Int
    OBVIOUS
  <2> QED BY <2>1, <2>2, <1>2, <1>4, SumLinear, Zenon DEF Divided
<1>8. Sum(k, Y) \in Int /\ Sum(e, Y) \in Int
  <2> HIDE DEF k, e
  <2> QED BY <1>4, SumFacts
<1> HIDE DEF k, e, v, Z
<1>9. Cong(Sum(k, Y) + Sum(e, Y), v + (-1) * Divided(g, Z))
  <2>1. (-1) * Divided(g, Z) \in Int
    BY <1>2
  <2> QED BY <2>1, <1>4, <1>5, <1>6, <1>8, CongPlus, Zenon
<1>10. /\ 1 * Sum(k, Y) + 1 * Sum(e, Y) = Sum(k, Y) + Sum(e, Y) /\ Sum(k, Y) + Sum(e, Y) \in Int
       /\ v + (-1) * Divided(g, Z) = v - Divided(g, Z) /\ v - Divided(g, Z) \in Int
  BY <1>2, <1>4, <1>8
<1>11. Cong(Divided(f, Y), v - Divided(g, Z))
  BY <1>2, <1>7, <1>9, <1>10, CongTrans, Zenon
<1> QED BY <1>11 DEF v, Z

\* Sizes of sets of elements.
LEMMA FieldCards ==
  ASSUME NEW s \in SUBSET Field
  PROVE  /\ Cardinality(s) \in Nat /\ (Cardinality(s) = 0 => s = {})
         /\ \A x \in s : Cardinality(s \ {x}) = Cardinality(s) - 1
         /\ Cardinality(s) >= 2 => \A x \in s : \E z \in s : z # x
<1>1. IsFiniteSet(s) /\ Cardinality(s) \in Nat
  BY FieldType
<1>2. \A x \in s : Cardinality(s \ {x}) = Cardinality(s) - 1
  BY <1>1, FS_RemoveElement
<1>3. ASSUME Cardinality(s) >= 2, NEW x \in s PROVE \E z \in s : z # x
  <2>1. Cardinality(s \ {x}) # 0
    BY <1>1, <1>2, <1>3
  <2>2. s \ {x} # {}
    BY <2>1, FS_EmptySet
  <2> QED BY <2>2
<1> QED BY <1>1, <1>2, <1>3, FS_EmptySet

\* The divided difference of a constant: 1 over a single point, 0 over more.
LEMMA DividedOne ==
  ASSUME NEW Y \in SUBSET Field, Y # {}
  PROVE  Cong(Divided(One, Y), IF Cardinality(Y) = 1 THEN 1 ELSE 0)
<1> DEFINE Value(s) == IF Cardinality(s) = 1 THEN 1 ELSE 0
           Fine(s) == Cong(Divided(One, s), Value(s))
           C == { s \in SUBSET Field : s # {} => Fine(s) }
           Id == [x \in Field |-> x]
<1>a. One \in [Field -> Int] /\ Id \in [Field -> Int] /\ \A x \in Field : One[x] = 1 /\ Id[x] = x /\ x \in Int
  BY FieldType DEF One
<1>1. {} \in C
  OBVIOUS
<1>2. ASSUME NEW s \in SUBSET Field, s # {}, \A x \in s : s \ {x} \in C
      PROVE  s \in C
  <2>1. CASE Cardinality(s) = 1
    <3>1. PICK x \in s : TRUE
      BY <1>2
    <3>2. s \ {x} = {} /\ x \in Field
      <4>1. Cardinality(s \ {x}) = 0
        BY <2>1, FieldCards
      <4> QED BY <4>1, FieldCards
    <3>3. Divided(One, s) = Weight(s, x)
      <4>1. Weighed(One, s) \in [Field -> Int]
        BY <1>a, DividedType
      <4>2. Sum(Weighed(One, s), s) = Weighed(One, s)[x] + Sum(Weighed(One, s), s \ {x})
        BY <4>1, SumFacts
      <4>3. Sum(Weighed(One, s), s \ {x}) = 0
        BY <4>1, <3>2, SumFacts
      <4>4. Weighed(One, s)[x] = 1 * Weight(s, x) /\ Weight(s, x) \in Int
        <5>1. Weight(s, x) \in Int
          BY <3>2, WeightIs, Zenon
        <5> QED BY <5>1, <1>a, <3>2 DEF Weighed
      <4> QED BY <4>2, <4>3, <4>4 DEF Divided
    <3>4. Cong(Weight(s, x) * 1, 1) /\ Weight(s, x) \in Int
      <4>1. Prod(Distances(x), s \ {x}) = 1
        <5>1. Distances(x) \in [Field -> Int]
          BY <3>2, WeightIs, Zenon
        <5> QED BY <5>1, <3>2, ProdFacts
      <4> QED BY <4>1, <3>2, WeightIs
    <3>5. Cong(Divided(One, s), 1)
      BY <3>3, <3>4
    <3> HIDE DEF Id
    <3> QED BY <3>5, <2>1
  <2>2. CASE Cardinality(s) # 1
    <3>1. PICK a \in s : TRUE
      BY <1>2
    <3>0. Cardinality(s) >= 2
      <4>1. Cardinality(s) # 0
        BY FieldCards, <1>2
      <4> QED BY <4>1, <2>2, FieldCards
    <3>2. PICK b \in s : b # a
      BY <3>0, FieldCards
    <3> DEFINE v == IF Cardinality(s) = 2 THEN 1 ELSE 0
               A == s \ {a}
               B == s \ {b}
    <3>3. A \in SUBSET Field /\ B \in SUBSET Field /\ a \in Field /\ b \in Field /\ v \in Int
      OBVIOUS
    <3>4. Cong(Divided(One, A), v) /\ Cong(Divided(One, B), v)
      <4>1. /\ Cardinality(A) = Cardinality(s) - 1 /\ Cardinality(B) = Cardinality(s) - 1
            /\ Cardinality(s) \in Nat
        BY FieldCards
      <4>2. A # {} /\ B # {} /\ A \in C /\ B \in C
        <5> HIDE DEF C
        <5> QED BY <1>2, <3>2
      <4>3. Fine(A) /\ Fine(B)
        <5> HIDE DEF Fine, A, B
        <5> QED BY <4>2
      <4>4. Value(A) = v /\ Value(B) = v
        <5> HIDE DEF A, B
        <5> QED BY <4>1
      <4> HIDE DEF Value, v, A, B
      <4> QED BY <4>3, <4>4
    <3>5. ASSUME NEW x \in s
          PROVE  Cong(Divided(Id, s), (0 * Divided(One, s) + x * Divided(One, s)) - Divided(One, s \ {x}))
      <4>1. \A z \in s : Cong(Id[z], 0 + z * One[z])
        <5>1. \A z \in s : Id[z] = 0 + z * One[z] /\ Id[z] \in Int
          BY <1>a
        <5> HIDE DEF Id
        <5> QED BY <5>1, CongRefl
      <4>2. 0 \in Int
        OBVIOUS
      <4> HIDE DEF Id
      <4> QED BY <4>1, <4>2, <1>a, DividedShift, Zenon
    <3>6. PICK m \in Int, n \in Int, p \in Int, q \in Int :
            m = Divided(Id, s) /\ n = Divided(One, s) /\ p = Divided(One, A) /\ q = Divided(One, B)
      <4> HIDE DEF Id, A, B
      <4> QED BY <3>3, <1>a, DividedType
    <3>7. /\ a \in Int /\ b \in Int /\ Cong(m, (0 * n + a * n) - p)
          /\ Cong(m, (0 * n + b * n) - q) /\ Cong(p, v) /\ Cong(q, v)
      <4> HIDE DEF Id, v
      <4> QED BY <3>4, <3>5, <3>6, <1>a
    <3>8. Cong((a - b) * n, (a - b) * 0)
      <4> HIDE DEF v
      <4>1. /\ (0 * n + a * n) - p = a * n - p /\ (0 * n + b * n) - q = b * n - q
            /\ a * n - p \in Int /\ b * n - q \in Int
        BY <3>7
      <4>2. Cong(a * n - p, m)
        BY <3>7, <4>1, CongSym
      <4>3. Cong(a * n - p, b * n - q)
        BY <3>7, <4>1, <4>2, CongTrans
      <4>4. Cong(p + (-1) * q, 0)
        <5>0. -1 \in Int /\ Cong(-1, -1)
          BY CongRefl
        <5>1. Cong((-1) * q, (-1) * v)
          BY <5>0, <3>3, <3>7, CongTimes, Zenon
        <5>2. (-1) * q \in Int /\ (-1) * v \in Int /\ v + (-1) * v = 0
          BY <3>3
        <5> QED BY <5>1, <5>2, <3>3, <3>7, CongPlus
      <4>5. Cong((a * n - p) + (p + (-1) * q), (b * n - q) + 0)
        <5>1. p + (-1) * q \in Int /\ 0 \in Int
          OBVIOUS
        <5> QED BY <5>1, <4>1, <4>3, <4>4, CongPlus, Zenon
      <4>6. Cong(a * n - q, b * n - q)
        <5>1. (a * n - p) + (p + (-1) * q) = a * n - q /\ (b * n - q) + 0 = b * n - q
          BY <3>7
        <5> QED BY <5>1, <4>5
      <4>7. Cong((a * n - q) + (q - b * n), (b * n - q) + (q - b * n))
        <5>1. a * n - q \in Int /\ q - b * n \in Int /\ b * n - q \in Int
          BY <3>7
        <5> QED BY <5>1, <4>6, CongPlus, CongRefl
      <4>8. (a * n - q) + (q - b * n) = (a - b) * n /\ (b * n - q) + (q - b * n) = (a - b) * 0
        BY <3>7
      <4> QED BY <4>7, <4>8
    <3>9. ~Cong(a - b, 0) /\ a - b \in Int
      <4>1. SUFFICES ASSUME Cong(a - b, 0) PROVE FALSE
        BY <3>7
      <4>2. Cong((a - b) + b, 0 + b) /\ (a - b) + b = a /\ 0 + b = b
        BY <3>7, <4>1, CongPlus, CongRefl
      <4>3. Cong(a, b)
        BY <4>2
      <4> QED BY <4>3, <3>2, <3>3, CongEqual
    <3>10. Cong(n, 0)
      <4>1. 0 \in Int
        OBVIOUS
      <4> QED BY <4>1, <3>8, <3>9, Strike, Zenon
    <3> HIDE DEF Id
    <3> QED BY <3>6, <3>10, <2>2
  <2> QED BY <2>1, <2>2
<1>3. Y \in C
  <2> HIDE DEF C
  <2> QED BY <1>1, <1>2, FieldSetInduction
<1> QED BY <1>3

-----------------------------------------------------------------------------
(***************************************************************************)
(* The shares: Horner's rule.                                              *)
(***************************************************************************)

\* Min is the least element.
LEMMA MinIs ==
  ASSUME NEW s \in SUBSET Nat, s # {}
  PROVE  Min(s) \in s /\ \A m \in s : Min(s) <= m
<1>1. \E n \in s : \A m \in s : n <= m
  BY Least
<1> QED BY <1>1, Zenon DEF Min

\* Horner's rule, from the last coefficient to the first.
Horner(v, seq, n, x) ==
  /\ v \in [1..(n + 1) -> Field] /\ v[n + 1] = 0
  /\ \A i \in 1..n : v[i] = U16(U16(v[i + 1] * x) + seq[i]) % P

\* Eval computes it: FoldRight takes the least index first.
LEMMA EvalChain ==
  ASSUME NEW n \in Nat, NEW seq \in [1..n -> Octet], NEW x \in Field
  PROVE  \E v : Horner(v, seq, n, x) /\ Eval(seq, x) = v[1]
<1> DEFINE S == 1..n
           t == [p \in S \X Field |-> U16(U16(p[2] * x) + seq[p[1]]) % P]
           c == [s \in SUBSET S |-> Min(s)]
           iter == CHOOSE it : it = [s \in SUBSET S |-> IF s = {} THEN 0
                                     ELSE U16(U16(it[s \ {Min(s)}] * x) + seq[Min(s)]) % P]
<1>1. ASSUME NEW i \in S, NEW acc \in Field
      PROVE  /\ U16(U16(acc * x) + seq[i]) % P \in Field
             /\ t[<<i, acc>>] = U16(U16(acc * x) + seq[i]) % P
  <2>1. seq[i] \in Octet
    OBVIOUS
  <2>2. U16(U16(acc * x) + seq[i]) % P \in Field
    BY <2>1, Steps, Zenon
  <2> QED BY <2>2
<1>2. t \in [S \X Field -> Field]
  BY <1>1
<1>3. ASSUME NEW s \in SUBSET S, s # {} PROVE Min(s) \in s /\ Min(s) \in S /\ \A m \in s : Min(s) <= m
  <2>1. s \in SUBSET Nat
    OBVIOUS
  <2> QED BY <2>1, <1>3, MinIs
<1>4. PICK f \in [SUBSET S -> Field] : Iterates(f, S, 0, c, t)
  <2>1. IsFiniteSet(S)
    BY FS_Interval
  <2>2. \A s \in SUBSET S : s # {} => c[s] \in s
    BY <1>3
  <2>3. 0 \in Field
    BY FieldType
  <2> HIDE DEF S, t, c
  <2> QED BY <1>2, <2>1, <2>2, <2>3, IterExists, Zenon
<1>5. f = [s \in SUBSET S |-> IF s = {} THEN 0
           ELSE U16(U16(f[s \ {Min(s)}] * x) + seq[Min(s)]) % P]
  <2>1. ASSUME NEW s \in SUBSET S, s # {}
        PROVE  f[s] = U16(U16(f[s \ {Min(s)}] * x) + seq[Min(s)]) % P
    <3>1. Min(s) \in S /\ s \ {Min(s)} \in SUBSET S /\ c[s] = Min(s)
      BY <1>3, <2>1
    <3>2. f[s \ {Min(s)}] \in Field
      <4> HIDE DEF S
      <4> QED BY <3>1
    <3>3. f[s] = t[<<c[s], f[s \ {c[s]}]>>]
      <4> HIDE DEF S, t, c
      <4> QED BY <1>4, <2>1 DEF Iterates
    <3> HIDE DEF S, t, c
    <3> QED BY <1>1, <3>1, <3>2, <3>3
  <2>2. f[{}] = 0
    <3>1. {} \in SUBSET S
      OBVIOUS
    <3> HIDE DEF S, t, c
    <3> QED BY <1>4, <3>1 DEF Iterates
  <2> HIDE DEF S, t, c
  <2> QED BY <2>1, <2>2
<1>6. iter = [s \in SUBSET S |-> IF s = {} THEN 0
              ELSE U16(U16(iter[s \ {Min(s)}] * x) + seq[Min(s)]) % P]
  BY <1>5
<1>7. DOMAIN seq = S
  OBVIOUS
<1>8. Eval(seq, x) = iter[S]
  <2> HIDE DEF S
  <2> QED BY <1>7, Zenon DEF Eval, FoldRight, MapThenFoldSet
<1> DEFINE v == [i \in 1..(n + 1) |-> iter[i..n]]
<1>9. v[n + 1] = 0 /\ v[n + 1] \in Field
  <2>1. (n + 1)..n = {} /\ n + 1 \in 1..(n + 1) /\ {} \in SUBSET S
    OBVIOUS
  <2>2. iter[{}] = 0
    <3> HIDE DEF iter, S
    <3> QED BY <1>6, <2>1
  <2> HIDE DEF iter, S
  <2> QED BY <2>1, <2>2, FieldType
<1>10. ASSUME NEW i \in 1..n PROVE v[i] = U16(U16(v[i + 1] * x) + seq[i]) % P
  <2>1. /\ i..n \in SUBSET S /\ i..n # {} /\ (i..n) \ {i} = (i + 1)..n
        /\ i \in 1..(n + 1) /\ i + 1 \in 1..(n + 1) /\ i \in i..n
    <3>1. i \in Nat /\ 1 <= i /\ i <= n
      OBVIOUS
    <3>2. i..n \in SUBSET S
      BY <3>1
    <3>3. i \in 1..(n + 1) /\ i + 1 \in 1..(n + 1) /\ i \in i..n
      BY <3>1
    <3>4. (i..n) \ {i} = (i + 1)..n
      BY <3>1
    <3> HIDE DEF S
    <3> QED BY <3>2, <3>3, <3>4
  <2>2. Min(i..n) = i
    <3>1. Min(i..n) \in i..n /\ Min(i..n) <= i
      <4> HIDE DEF S
      <4> QED BY <1>3, <2>1
    <3> QED BY <3>1
  <2>3. iter[i..n] = U16(U16(iter[(i + 1)..n] * x) + seq[i]) % P
    <3> HIDE DEF iter, S
    <3> QED BY <1>6, <2>1, <2>2
  <2>4. v[i] = iter[i..n] /\ v[i + 1] = iter[(i + 1)..n]
    <3> HIDE DEF iter
    <3> QED BY <2>1
  <2> HIDE DEF iter, v
  <2> QED BY <2>3, <2>4
<1>11. \A i \in 1..(n + 1) : v[i] \in Field
  <2> HIDE DEF v, iter
  <2> DEFINE T == { k \in Nat : k <= n => v[n + 1 - k] \in Field }
  <2>1. 0 \in T
    BY <1>9
  <2>2. ASSUME NEW k \in T PROVE k + 1 \in T
    <3>1. SUFFICES ASSUME k + 1 <= n PROVE v[n + 1 - (k + 1)] \in Field
      OBVIOUS
    <3>2. PICK i \in 1..n : i = n - k /\ n + 1 - (k + 1) = i /\ n + 1 - k = i + 1 /\ k <= n
      BY <3>1
    <3>3. v[i + 1] \in Field /\ seq[i] \in Octet
      BY <3>2
    <3>4. v[i] = U16(U16(v[i + 1] * x) + seq[i]) % P
      BY <1>10
    <3>5. v[i] \in Field
      <4>1. U16(U16(v[i + 1] * x) + seq[i]) % P \in Field
        BY <3>3, Steps, Zenon
      <4> QED BY <3>4, <4>1
    <3> QED BY <3>2, <3>5
  <2>3. T = Nat
    <3>1. T \in SUBSET Nat
      OBVIOUS
    <3> HIDE DEF T
    <3> QED BY <2>1, <2>2, <3>1, SetInduction
  <2>4. ASSUME NEW i \in 1..(n + 1) PROVE v[i] \in Field
    <3>1. PICK k \in Nat : k = n + 1 - i /\ n + 1 - k = i /\ k <= n
      OBVIOUS
    <3>2. k \in T
      BY <2>3
    <3> QED BY <3>1, <3>2
  <2> QED BY <2>4
<1>12. v[1] = iter[S]
  <2>1. 1 \in 1..(n + 1)
    OBVIOUS
  <2> HIDE DEF iter
  <2> QED BY <2>1
<1>13. Horner(v, seq, n, x)
  <2>1. v \in [1..(n + 1) -> Field]
    <3>1. v = [i \in 1..(n + 1) |-> v[i]]
      OBVIOUS
    <3> HIDE DEF v
    <3> QED BY <3>1, <1>11
  <2> HIDE DEF v
  <2> QED BY <2>1, <1>9, <1>10 DEF Horner
<1> HIDE DEF v
<1> QED BY <1>8, <1>12, <1>13

\* There is one such chain, so a polynomial is its first coefficient plus x times
\* the rest of it.
LEMMA EvalEmpty ==
  ASSUME NEW seq \in [1..0 -> Octet], NEW x \in Field
  PROVE  Eval(seq, x) = 0
<1>1. PICK v : Horner(v, seq, 0, x) /\ Eval(seq, x) = v[1]
  <2>1. 0 \in Nat
    OBVIOUS
  <2> QED BY <2>1, EvalChain, Zenon
<1>2. 0 + 1 = 1
  OBVIOUS
<1> QED BY <1>1, <1>2 DEF Horner

\* The same with one coefficient put in front.
Prefixed(long, c, seq, n) == long[1] = c /\ \A i \in 1..n : long[i + 1] = seq[i]

LEMMA EvalCons ==
  ASSUME NEW n \in Nat, NEW seq \in [1..n -> Octet], NEW c \in Octet, NEW x \in Field,
         NEW long \in [1..(n + 1) -> Octet], Prefixed(long, c, seq, n)
  PROVE  /\ Eval(seq, x) \in Field
         /\ Eval(long, x) \in Field
         /\ Cong(Eval(long, x), c + x * Eval(seq, x))
<1>1. PICK v : Horner(v, seq, n, x) /\ Eval(seq, x) = v[1]
  BY EvalChain
<1>2. PICK w : Horner(w, long, n + 1, x) /\ Eval(long, x) = w[1]
  <2>1. n + 1 \in Nat
    OBVIOUS
  <2> QED BY <2>1, EvalChain, Zenon
<1>0. long[1] = c /\ \A i \in 1..n : long[i + 1] = seq[i]
  BY DEF Prefixed
<1> DEFINE T == { k \in Nat : k <= n => w[(n + 1 - k) + 1] = v[n + 1 - k] }
<1>3. 0 \in T
  <2>1. v[n + 1] = 0 /\ w[(n + 1) + 1] = 0
    BY <1>1, <1>2 DEF Horner
  <2>2. (n + 1 - 0) + 1 = (n + 1) + 1 /\ n + 1 - 0 = n + 1
    OBVIOUS
  <2> QED BY <2>1, <2>2
<1>4. ASSUME NEW k \in T PROVE k + 1 \in T
  <2>1. SUFFICES ASSUME k + 1 <= n PROVE w[(n + 1 - (k + 1)) + 1] = v[n + 1 - (k + 1)]
    OBVIOUS
  <2>2. PICK i \in 1..n : i = n - k /\ n + 1 - (k + 1) = i /\ n + 1 - k = i + 1 /\ k <= n
    BY <2>1
  <2>3. w[(i + 1) + 1] = v[i + 1]
    BY <2>2
  <2>4. /\ w[i + 1] = U16(U16(w[(i + 1) + 1] * x) + long[i + 1]) % P
        /\ v[i] = U16(U16(v[i + 1] * x) + seq[i]) % P
    <3>1. i + 1 \in 1..(n + 1)
      OBVIOUS
    <3> QED BY <1>1, <1>2, <3>1 DEF Horner
  <2>5. w[i + 1] = v[i]
    BY <2>3, <2>4, <1>0
  <2> QED BY <2>2, <2>5
<1>5. T = Nat
  <2>1. T \in SUBSET Nat
    OBVIOUS
  <2> HIDE DEF T
  <2> QED BY <2>1, <1>3, <1>4, SetInduction
<1>6. w[2] = v[1]
  <2>1. n \in T
    BY <1>5
  <2>2. n <= n /\ n + 1 - n = 1 /\ 1 + 1 = 2
    OBVIOUS
  <2>3. w[(n + 1 - n) + 1] = v[n + 1 - n]
    BY <2>1, <2>2
  <2> QED BY <2>2, <2>3
<1>7. w[1] = U16(U16(v[1] * x) + c) % P
  <2>1. w[1] = U16(U16(w[1 + 1] * x) + long[1]) % P
    <3>1. 1 \in 1..(n + 1)
      OBVIOUS
    <3> QED BY <3>1, <1>2 DEF Horner
  <2>2. 1 + 1 = 2
    OBVIOUS
  <2> QED BY <2>1, <2>2, <1>0, <1>6
<1>8. v[1] \in Field
  <2>1. 1 \in 1..(n + 1)
    OBVIOUS
  <2> QED BY <2>1, <1>1 DEF Horner
<1>9. /\ U16(U16(v[1] * x) + c) % P \in Field
      /\ Cong(U16(U16(v[1] * x) + c) % P, c + x * v[1])
  BY <1>8, Steps, Zenon
<1> QED BY <1>1, <1>2, <1>7, <1>8, <1>9, Zenon

\* The same with the first coefficient taken off.
LEMMA EvalTail ==
  ASSUME NEW m \in Nat, NEW B \in SUBSET Octet, NEW seq \in [1..(m + 1) -> B]
  PROVE  /\ seq[1] \in B
         /\ \E r \in [1..m -> B] :
              \A x \in Field : Eval(r, x) \in Field /\ Cong(Eval(seq, x), seq[1] + x * Eval(r, x))
<1> DEFINE r == [i \in 1..m |-> seq[i + 1]]
<1>1. \A i \in 1..m : i + 1 \in 1..(m + 1)
  OBVIOUS
<1>2. seq[1] \in B /\ \A i \in 1..m : seq[i + 1] \in B
  <2>1. 1 \in 1..(m + 1)
    OBVIOUS
  <2> HIDE DEF r
  <2> QED BY <1>1, <2>1
<1>3. r \in [1..m -> B] /\ \A i \in 1..m : seq[i + 1] = r[i]
  BY <1>2
<1>4. r \in [1..m -> Octet] /\ seq \in [1..(m + 1) -> Octet]
  BY <1>3
<1> HIDE DEF r
<1>5. ASSUME NEW x \in Field
      PROVE  Eval(r, x) \in Field /\ Cong(Eval(seq, x), seq[1] + x * Eval(r, x))
  <2>1. Prefixed(seq, seq[1], r, m)
    BY <1>3 DEF Prefixed
  <2>2. seq[1] \in Octet
    BY <1>2
  <2> QED BY <2>1, <2>2, <1>4, EvalCons, Zenon
<1> QED BY <1>2, <1>3, <1>5

\* That, for bytes.
LEMMA EvalTailBytes ==
  ASSUME NEW m \in Nat, NEW seq \in [1..(m + 1) -> Octet]
  PROVE  \E r \in [1..m -> Octet] :
           \A x \in Field : Eval(r, x) \in Field /\ Cong(Eval(seq, x), seq[1] + x * Eval(r, x))
<1> DEFINE B == Octet
<1>1. B \in SUBSET Octet /\ seq \in [1..(m + 1) -> B]
  OBVIOUS
<1> HIDE DEF B
<1>2. \E r \in [1..m -> B] :
        \A x \in Field : Eval(r, x) \in Field /\ Cong(Eval(seq, x), seq[1] + x * Eval(r, x))
  BY <1>1, EvalTail, Zenon
<1> QED BY <1>2 DEF B

\* A share is an element.
LEMMA EvalType ==
  ASSUME NEW n \in Nat, NEW seq \in [1..n -> Octet], NEW x \in Field
  PROVE  Eval(seq, x) \in Field
<1>1. PICK v : Horner(v, seq, n, x) /\ Eval(seq, x) = v[1]
  BY EvalChain
<1>2. 1 \in 1..(n + 1)
  OBVIOUS
<1> QED BY <1>1, <1>2 DEF Horner

-----------------------------------------------------------------------------
(***************************************************************************)
(* combine_shares: enough shares.                                          *)
(***************************************************************************)

\* The divided difference of a polynomial over more points than coefficients is 0.
LEMMA DividedVanishes ==
  ASSUME NEW n \in Nat, NEW seq \in [1..n -> Octet], NEW Y \in SUBSET Field,
         Cardinality(Y) >= n + 1
  PROVE  Cong(Divided([x \in Field |-> Eval(seq, x)], Y), 0)
<1> DEFINE Values(s) == [x \in Field |-> Eval(s, x)]
           Fine(s, Z) == Cong(Divided(Values(s), Z), 0)
           All(k) == \A s \in [1..k -> Octet] : \A Z \in SUBSET Field :
                       Cardinality(Z) >= k + 1 => Fine(s, Z)
           T == { k \in Nat : All(k) }
<1>a. ASSUME NEW k \in Nat, NEW s \in [1..k -> Octet]
      PROVE  Values(s) \in [Field -> Int] /\ \A x \in Field : Values(s)[x] = Eval(s, x)
  <2>1. \A x \in Field : Eval(s, x) \in Int
    BY EvalType, FieldType
  <2> QED BY <2>1
<1>1. 0 \in T
  <2>1. ASSUME NEW s \in [1..0 -> Octet], NEW Z \in SUBSET Field PROVE Fine(s, Z)
    <3> DEFINE f == Values(s)
    <3>1. f \in [Field -> Int] /\ \A x \in Field : f[x] = 0
      BY <1>a, EvalEmpty
    <3> HIDE DEF f
    <3>2. Weighed(f, Z) \in [Field -> Int] /\ Divided(f, Z) \in Int
      BY <3>1, DividedType
    <3>3. \A x \in Z : Cong(Weighed(f, Z)[x], 0 * Weighed(f, Z)[x] + 0 * Weighed(f, Z)[x])
      <4>1. ASSUME NEW x \in Z
            PROVE  Weighed(f, Z)[x] = 0 /\ 0 * Weighed(f, Z)[x] + 0 * Weighed(f, Z)[x] = 0
        <5>1. Weight(Z, x) \in Int /\ x \in Field
          BY WeightIs, Zenon
        <5>2. Weighed(f, Z)[x] = 0 * Weight(Z, x)
          BY <5>1, <3>1 DEF Weighed
        <5> QED BY <5>1, <5>2
      <4>2. Cong(0, 0)
        BY CongRefl
      <4> QED BY <4>1, <4>2
    <3>4. Cong(Divided(f, Z), 0 * Divided(f, Z) + 0 * Divided(f, Z))
      <4>1. 0 \in Int
        OBVIOUS
      <4> QED BY <4>1, <3>2, <3>3, SumLinear, Zenon DEF Divided
    <3>5. 0 * Divided(f, Z) + 0 * Divided(f, Z) = 0
      BY <3>2
    <3> QED BY <3>4, <3>5 DEF f
  <2> HIDE DEF Fine
  <2> QED BY <2>1
<1>2. ASSUME NEW k \in T PROVE k + 1 \in T
  <2>0. k \in Nat /\ All(k)
    <3> HIDE DEF All
    <3> QED OBVIOUS
  <2>1. ASSUME NEW s \in [1..(k + 1) -> Octet], NEW Z \in SUBSET Field, Cardinality(Z) >= (k + 1) + 1
        PROVE  Fine(s, Z)
    <3>1. PICK r \in [1..k -> Octet] :
            \A x \in Field : Eval(r, x) \in Field /\ Cong(Eval(s, x), s[1] + x * Eval(r, x))
      BY <2>0, EvalTailBytes, Zenon
    <3>a. s[1] \in Int
      <4>1. 1 \in 1..(k + 1) /\ \A b \in Octet : b \in Int
        BY <2>0 DEF Octet
      <4> QED BY <4>1
    <3> DEFINE f == Values(s)
               g == Values(r)
    <3>2. f \in [Field -> Int] /\ g \in [Field -> Int]
      <4>1. k + 1 \in Nat
        BY <2>0
      <4> HIDE DEF Values
      <4> QED BY <1>a, <2>0, <4>1
    <3>3. \A x \in Field : Cong(f[x], s[1] + x * g[x])
      BY <3>1
    <3>4. Cardinality(Z) \in Nat /\ Z # {} /\ Cardinality(Z) # 1
      <4>1. Cardinality(Z) \in Nat
        BY FieldCards
      <4>2. Cardinality(Z) # 0 /\ Cardinality(Z) # 1
        BY <2>0, <2>1, <4>1
      <4> QED BY <4>1, <4>2, FS_EmptySet
    <3>5. PICK a \in Z : TRUE
      BY <3>4
    <3> DEFINE A == Z \ {a}
    <3>6. Cong(Divided(g, Z), 0) /\ Cong(Divided(g, A), 0)
      <4>1. A \in SUBSET Field /\ Cardinality(A) >= k + 1 /\ Cardinality(Z) >= k + 1
        <5>1. Cardinality(A) = Cardinality(Z) - 1
          BY FieldCards
        <5> QED BY <2>0, <2>1, <3>4, <5>1
      <4> HIDE DEF A
      <4>2. Fine(r, Z) /\ Fine(r, A)
        <5> HIDE DEF Fine
        <5> QED BY <2>0, <3>1, <4>1
      <4> QED BY <4>2
    <3>7. Cong(Divided(One, Z), 0)
      BY <3>4, DividedOne
    <3> HIDE DEF f, g, A
    <3>8. PICK m \in Int, p \in Int, q \in Int, u \in Int, c \in Int :
            m = Divided(f, Z) /\ p = Divided(One, Z) /\ q = Divided(g, Z) /\ u = Divided(g, A) /\ c = s[1]
      <4>1. One \in [Field -> Int]
        BY DEF One
      <4>2. A \in SUBSET Field
        BY DEF A
      <4> QED BY <4>1, <4>2, <3>a, <3>2, DividedType
    <3>9. Cong(m, (c * p + a * q) - u)
      <4>1. Cong(Divided(f, Z), (s[1] * Divided(One, Z) + a * Divided(g, Z)) - Divided(g, Z \ {a}))
        <5>1. \A x \in Z : Cong(f[x], s[1] + x * g[x])
          BY <3>3
        <5> QED BY <5>1, <3>a, <3>2, DividedShift, Zenon
      <4> QED BY <4>1, <3>8 DEF A
    <3>10. a \in Int /\ Cong(p, 0) /\ Cong(q, 0) /\ Cong(u, 0)
      BY <3>6, <3>7, <3>8, FieldType
    <3>11. Cong((c * p + a * q) + (-1) * u, (c * 0 + a * 0) + (-1) * 0)
      <4>1. 0 \in Int /\ -1 \in Int /\ c * p \in Int /\ a * q \in Int /\ (-1) * u \in Int
        BY <3>10
      <4>2. /\ c * 0 \in Int /\ a * 0 \in Int /\ (-1) * 0 \in Int /\ c * p + a * q \in Int
            /\ c * 0 + a * 0 \in Int
        BY <3>10
      <4>3. Cong(c * p, c * 0) /\ Cong(a * q, a * 0) /\ Cong((-1) * u, (-1) * 0)
        <5>1. Cong(c, c) /\ Cong(a, a) /\ Cong(-1, -1)
          BY <3>10, <4>1, CongRefl, Zenon
        <5> QED BY <5>1, <3>10, <4>1, CongTimes, Zenon
      <4>4. Cong(c * p + a * q, c * 0 + a * 0)
        BY <4>1, <4>2, <4>3, CongPlus, Zenon
      <4> QED BY <4>1, <4>2, <4>3, <4>4, CongPlus, Zenon
    <3>12. /\ (c * p + a * q) + (-1) * u = (c * p + a * q) - u /\ (c * 0 + a * 0) + (-1) * 0 = 0
           /\ (c * p + a * q) - u \in Int
      BY <3>10
    <3>13. Cong((c * p + a * q) - u, 0)
      BY <3>11, <3>12
    <3>14. Cong(m, 0)
      <4>1. 0 \in Int
        OBVIOUS
      <4> QED BY <4>1, <3>9, <3>12, <3>13, CongTrans, Zenon
    <3> QED BY <3>8, <3>14 DEF f
  <2> HIDE DEF Fine
  <2> QED BY <2>0, <2>1
<1>3. n \in T
  <2>1. T \in SUBSET Nat
    OBVIOUS
  <2> HIDE DEF T
  <2> QED BY <2>1, <1>1, <1>2, SetInduction
<1>4. All(n)
  <2> HIDE DEF All
  <2> QED BY <1>3
<1> QED BY <1>4

\* The Lagrange coefficient of combine_shares is the product of the other points
\* times the weight of its own.
LEMMA LagrangeIs ==
  ASSUME NEW S \in SUBSET Field, NEW i \in S
  PROVE  /\ Prod([x \in Field |-> x], S \ {i}) \in Int
         /\ Lagrange(S, i) \in Field
         /\ Cong(Lagrange(S, i), Prod([x \in Field |-> x], S \ {i}) * Weight(S, i))
<1> DEFINE num == FoldSet(LAMBDA xj, acc : U16(acc * xj) % P, 1, S \ {i})
           den == FoldSet(LAMBDA xj, acc : U16(acc * ((xj + P - i) % P)) % P, 1, S \ {i})
           N == Prod([x \in Field |-> x], S \ {i})
           D == Prod(Distances(i), S \ {i})
           W == Weight(S, i)
<1>1. S \ {i} \in SUBSET Field /\ i \in Field
  OBVIOUS
<1>2. num \in Field /\ Cong(num, N) /\ N \in Int
  <2>1. [x \in Field |-> x] \in [Field -> Int]
    BY FieldType
  <2>2. N \in Int
    BY <1>1, <2>1, ProdFacts
  <2>3. num \in Field /\ Cong(num, N)
    BY <1>1, NumeratorIs, Zenon
  <2> QED BY <2>2, <2>3, Zenon
<1>3. den \in Field /\ Cong(den, D)
  BY <1>1, DenominatorIs, Zenon DEF Distances
<1>4. W \in Int /\ D \in Int /\ ~Cong(D, 0) /\ Cong(W * D, 1)
  BY <1>1, WeightIs, Zenon
<1>5. Lagrange(S, i) = U16(num * GfInv[den]) % P
  BY Zenon DEF Lagrange
<1> HIDE DEF num, den, N, D, W
<1>6. num \in Int /\ den \in Int /\ den # 0
  <2>1. num \in Int /\ den \in Int
    BY <1>2, <1>3, FieldType
  <2>2. ASSUME den = 0 PROVE FALSE
    <3>1. Cong(D, 0)
      BY <2>1, <2>2, <1>3, <1>4, CongSym
    <3> QED BY <3>1, <1>4
  <2> QED BY <2>1, <2>2
<1>7. PICK g \in Field : g = GfInv[den] /\ Cong(den * g, 1) /\ g \in Int
  BY <1>3, <1>6, Inverts, FieldType
<1>8. Cong(g, W)
  <2>1. Cong(den * g, den * W)
    <3>1. den * W \in Int /\ W * D \in Int /\ W * den \in Int /\ den * g \in Int /\ 1 \in Int
      BY <1>4, <1>6, <1>7
    <3>2. Cong(W * den, W * D)
      BY <1>3, <1>4, <1>6, CongTimes, CongRefl, Zenon
    <3>3. Cong(W * den, 1)
      BY <3>1, <3>2, <1>4, CongTrans, Zenon
    <3>4. Cong(1, W * den)
      BY <3>1, <3>3, CongSym, Zenon
    <3>5. Cong(den * g, W * den)
      BY <3>1, <3>4, <1>7, CongTrans, Zenon
    <3>6. W * den = den * W
      BY <1>4, <1>6
    <3> QED BY <3>5, <3>6
  <2>2. ~Cong(den, 0)
    BY <1>3, <1>6, FieldType, CongEqual
  <2> QED BY <2>1, <2>2, <1>4, <1>6, <1>7, Strike, Zenon
<1>9. U16(num * g) % P \in Field /\ Cong(U16(num * g) % P, g * num)
  <2>1. 0 \in Octet
    BY DEF Octet
  <2> QED BY <2>1, <1>2, Steps, Zenon
<1>10. Cong(g * num, W * N) /\ W * N = N * W /\ g * num \in Int /\ W * N \in Int
  <2>1. W * N = N * W /\ g * num \in Int /\ W * N \in Int
    BY <1>2, <1>4, <1>6, <1>7
  <2> QED BY <2>1, <1>2, <1>4, <1>6, <1>7, <1>8, CongTimes, Zenon
<1>11. Cong(U16(num * g) % P, N * W)
  <2>1. U16(num * g) % P \in Int
    BY <1>9, FieldType
  <2> QED BY <2>1, <1>9, <1>10, CongTrans, Zenon
<1> QED BY <1>2, <1>5, <1>7, <1>9, <1>11 DEF N, W

\* combine_shares on as many shares as there are coefficients, or more.
LEMMA Restores ==
  ASSUME NEW S \in SUBSET Field, 0 \notin S,
         NEW n \in Nat, n >= 1, NEW seq \in [1..n -> Octet], seq[1] \in Field,
         Cardinality(S) >= n, \A x \in S : y[x] = Eval(seq, x)
  PROVE  Combine(S) = seq[1]
<1> DEFINE Y == S \cup {0}
           f == [x \in Field |-> Eval(seq, x)]
           h == Weighed(f, Y)
           Id == [x \in Field |-> x]
           N == Prod(Id, S)
           k == [x \in Field |-> IF x \in S THEN Lagrange(S, x) * y[x] ELSE 0]
<1>1. Y \in SUBSET Field /\ Y \ {0} = S /\ 0 \in Y /\ 0 \in Field /\ Field \subseteq Int
  BY FieldType
<1>2. f \in [Field -> Int] /\ \A x \in Field : f[x] = Eval(seq, x) /\ f[x] \in Field
  <2>1. \A x \in Field : Eval(seq, x) \in Field /\ Eval(seq, x) \in Int
    BY EvalType, FieldType
  <2> QED BY <2>1
<1>3. h \in [Field -> Int] /\ \A x \in Field : h[x] = f[x] * Weight(Y, x) /\ Weight(Y, x) \in Int
  <2>1. \A x \in Field : Weight(Y, x) \in Int
    <3> HIDE DEF Y
    <3> QED BY <1>1, WeightIs, Zenon
  <2> HIDE DEF f, Y
  <2> QED BY <1>1, <1>2, <2>1, DividedType DEF Weighed
<1>4. Id \in [Field -> Int] /\ N \in Int /\ \A x \in Field : Id[x] = x
  <2>1. Id \in [Field -> Int] /\ \A x \in Field : Id[x] = x
    BY <1>1
  <2> HIDE DEF Id
  <2> QED BY <2>1, ProdFacts
<1>5. ASSUME NEW x \in S
      PROVE  /\ x \in Field /\ x \in Int /\ Lagrange(S, x) \in Field /\ Lagrange(S, x) \in Int
             /\ y[x] \in Field /\ y[x] = f[x] /\ k[x] = Lagrange(S, x) * f[x]
  <2>1. Lagrange(S, x) \in Field
    BY LagrangeIs, Zenon
  <2>2. x \in Field /\ y[x] = f[x] /\ f[x] \in Field
    <3> HIDE DEF f
    <3> QED BY <1>2
  <2>3. k[x] = Lagrange(S, x) * f[x]
    <3> HIDE DEF f
    <3> QED BY <2>2
  <2> HIDE DEF k, f
  <2> QED BY <2>1, <2>2, <2>3, <1>1
<1>6. k \in [Field -> Int]
  <2>1. \A x \in S : Lagrange(S, x) * y[x] \in Int
    <3>1. ASSUME NEW x \in S PROVE Lagrange(S, x) * y[x] \in Int
      <4>1. Lagrange(S, x) \in Int /\ y[x] \in Int
        BY <1>1, <1>5
      <4> QED BY <4>1
    <3> QED BY <3>1
  <2> QED BY <2>1
<1>7. Combine(S) \in Field /\ Cong(Combine(S), Sum(k, S))
  BY <1>5, CombineIs
<1>8. Cong(Divided(f, Y), 0) /\ Divided(f, Y) = h[0] + Sum(h, S) /\ Sum(h, S) \in Int
  <2>1. Cardinality(Y) >= n + 1
    <3>1. Cardinality(Y \ {0}) = Cardinality(Y) - 1 /\ Cardinality(Y) \in Nat
      <4> HIDE DEF Y
      <4> QED BY <1>1, FieldCards
    <3> HIDE DEF Y, f, h, Id, N, k
    <3>2. Cardinality(S) = Cardinality(Y) - 1
      BY <3>1, <1>1
    <3> QED BY <3>1, <3>2
  <2>2. Cong(Divided(f, Y), 0)
    <3> HIDE DEF Y
    <3> QED BY <1>1, <2>1, DividedVanishes, Zenon
  <2>3. Sum(h, Y) = h[0] + Sum(h, Y \ {0}) /\ Sum(h, S) \in Int
    <3>1. h \in [Field -> Int] /\ Y \in SUBSET Field /\ S \in SUBSET Field /\ 0 \in Y
      BY <1>1, <1>3
    <3> HIDE DEF h, Y, f, k, Id, N
    <3>2. \A s \in SUBSET Field : Sum(h, s) \in Int
      BY <3>1, SumFacts
    <3>3. Sum(h, Y) = h[0] + Sum(h, Y \ {0})
      BY <3>1, SumFacts
    <3> QED BY <3>1, <3>2, <3>3
  <2>4. Divided(f, Y) = Sum(h, Y)
    BY Zenon DEF Divided
  <2> HIDE DEF h, Y, f
  <2> QED BY <2>2, <2>3, <2>4, <1>1
<1>9. Cong(N * Weight(Y, 0), 1)
  <2>1. Cong(Weight(Y, 0) * Prod(Distances(0), S), 1)
    <3> HIDE DEF Y
    <3> QED BY <1>1, WeightIs
  <2>2. Distances(0) = Id
    <3>1. \A x \in Field : x - 0 = x
      BY <1>1
    <3> QED BY <3>1 DEF Distances
  <2>3. Weight(Y, 0) * N = N * Weight(Y, 0)
    <3>1. Weight(Y, 0) \in Int
      BY <1>1, <1>3
    <3> HIDE DEF N, Y
    <3> QED BY <1>4, <3>1
  <2> HIDE DEF Y, Id
  <2> QED BY <2>1, <2>2, <2>3
<1>10. ASSUME NEW x \in S PROVE Cong(k[x], (-N) * h[x] + 0 * h[x])
  <2> DEFINE M == Prod(Id, S \ {x})
  <2>1. N = x * M /\ M \in Int
    <3>1. N = Id[x] * M /\ M \in Int
      <4>1. S \ {x} \in SUBSET Field
        OBVIOUS
      <4>2. Prod(Id, S) = Id[x] * Prod(Id, S \ {x}) /\ Prod(Id, S \ {x}) \in Int
        <5> HIDE DEF Id, Y, h, f, k, N
        <5>1. Id \in [Field -> Int] /\ S \in SUBSET Field
          BY <1>1, <1>4
        <5> QED BY <5>1, <4>1, ProdFacts, Zenon
      <4> QED BY <4>2
    <3> HIDE DEF M, N, Id
    <3> QED BY <3>1, <1>4, <1>5
  <2>2. Cong(Weight(Y, x) * (0 - x), Weight(S, x))
    <3>1. x # 0
      OBVIOUS
    <3> HIDE DEF Y
    <3> QED BY <1>1, <1>5, <3>1, WeightDrop
  <2>3. Cong(Lagrange(S, x), M * Weight(S, x))
    BY LagrangeIs, Zenon
  <2>4. PICK w \in Int, u \in Int, l \in Int, e \in Int, d \in Int, m \in Int, v \in Int :
          /\ w = Weight(Y, x) /\ u = Weight(S, x) /\ l = Lagrange(S, x) /\ e = f[x]
          /\ d = 0 - x /\ m = M /\ v = N
          /\ h[x] = e * w /\ k[x] = l * e
    <3>1. Weight(Y, x) \in Int /\ h[x] = f[x] * Weight(Y, x) /\ f[x] \in Int
      <4> HIDE DEF f, h, Y, k, N, Id
      <4>1. x \in Field /\ f[x] \in Field
        BY <1>2, <1>5
      <4> QED BY <4>1, <1>1, <1>3
    <3>2. Weight(S, x) \in Int /\ 0 - x \in Int
      <4>1. Weight(S, x) \in Int
        BY <1>5, WeightIs, Zenon
      <4>2. 0 - x \in Int
        <5> HIDE DEF f, h, Y, k, N, Id
        <5> QED BY <1>5
      <4> QED BY <4>1, <4>2
    <3> HIDE DEF M, N, f, h, k, Y, Id
    <3>3. k[x] = Lagrange(S, x) * f[x] /\ Lagrange(S, x) \in Int /\ M \in Int /\ N \in Int
      BY <2>1, <1>4, <1>5
    <3> QED BY <3>1, <3>2, <3>3, Zenon
  <2>5. Cong(w * d, u) /\ Cong(l, m * u) /\ x \in Int
    <3> HIDE DEF M, Y, N, f, h, k, Id
    <3>1. x \in Int
      BY <1>5
    <3>2. Cong(w * d, u)
      BY <2>2, <2>4, Zenon
    <3>3. Cong(l, m * u)
      BY <2>3, <2>4, Zenon
    <3> QED BY <3>1, <3>2, <3>3
  <2>6. v = x * m /\ d = -x
    <3> HIDE DEF M, N, Y, f, h, k, Id
    <3>1. d = -x
      BY <2>4, <2>5
    <3>2. v = x * m
      BY <2>1, <2>4, Zenon
    <3> QED BY <3>1, <3>2
  <2>7. Cong(l * e, ((w * d) * m) * e)
    <3>1. w * d \in Int /\ m * u \in Int /\ m * (w * d) \in Int
      OBVIOUS
    <3>2. Cong(u, w * d)
      BY <2>5, <3>1, CongSym, Zenon
    <3>3. Cong(m * u, m * (w * d))
      BY <3>1, <3>2, CongTimes, CongRefl, Zenon
    <3>4. Cong(l, m * (w * d))
      BY <2>5, <3>1, <3>3, CongTrans, Zenon
    <3>5. Cong(l * e, (m * (w * d)) * e)
      BY <3>1, <3>4, CongTimes, CongRefl, Zenon
    <3>6. (m * (w * d)) * e = ((w * d) * m) * e
      OBVIOUS
    <3> QED BY <3>5, <3>6
  <2>8. ((w * d) * m) * e = (-v) * (e * w) + 0 * (e * w)
    <3>1. ((w * d) * m) * e = (d * m) * (e * w) /\ 0 * (e * w) = 0 /\ (-v) * (e * w) \in Int
      OBVIOUS
    <3>2. d * m = -v
      BY <2>5, <2>6
    <3> QED BY <3>1, <3>2
  <2> HIDE DEF N, k, h
  <2> QED BY <2>4, <2>7, <2>8
<1>11. Cong(Sum(k, S), (-N) * Sum(h, S) + 0 * Sum(h, S))
  <2> HIDE DEF N, k, h
  <2>1. -N \in Int /\ 0 \in Int
    BY <1>4
  <2> QED BY <2>1, <1>3, <1>6, <1>10, SumLinear, Zenon
<1>12. f[0] = seq[1]
  <2>1. f[0] \in Field /\ f[0] = Eval(seq, 0)
    <3> HIDE DEF f
    <3> QED BY <1>1, <1>2
  <2> HIDE DEF f, k, h, N, Id, Y
  <2>2. PICK m \in Nat : n = m + 1
    <3>1. n - 1 \in Nat /\ n = (n - 1) + 1
      OBVIOUS
    <3> QED BY <3>1
  <2>3. PICK r \in [1..m -> Octet] :
          \A x \in Field : Eval(r, x) \in Field /\ Cong(Eval(seq, x), seq[1] + x * Eval(r, x))
    <3>1. seq \in [1..(m + 1) -> Octet]
      BY <2>2
    <3> QED BY <3>1, EvalTailBytes, Zenon
  <2>4. Eval(r, 0) \in Field /\ Cong(Eval(seq, 0), seq[1] + 0 * Eval(r, 0))
    BY <1>1, <2>3
  <2>5. seq[1] + 0 * Eval(r, 0) = seq[1]
    <3>1. \A c, e \in Int : c + 0 * e = c
      OBVIOUS
    <3>2. seq[1] \in Int /\ Eval(r, 0) \in Int
      BY <1>1, <2>4, Zenon
    <3> QED BY <3>1, <3>2, Zenon
  <2>6. Cong(f[0], seq[1])
    <3> HIDE DEF f
    <3> QED BY <2>1, <2>4, <2>5
  <2> HIDE DEF f
  <2> QED BY <2>1, <2>6, CongEqual
<1> HIDE DEF f, k, h, N, Id
<1>13. PICK s \in Int, v \in Int, w \in Int, c \in Int, q \in Int :
         /\ s = Sum(h, S) /\ v = N /\ w = Weight(Y, 0) /\ c = seq[1] /\ q = Sum(k, S)
         /\ h[0] = c * w
  <2>1. Sum(k, S) \in Int /\ seq[1] \in Int /\ Weight(Y, 0) \in Int /\ h[0] = seq[1] * Weight(Y, 0)
    <3> HIDE DEF Y
    <3> QED BY <1>1, <1>3, <1>6, <1>12, SumFacts
  <2> HIDE DEF Y
  <2> QED BY <2>1, <1>4, <1>8
<1> HIDE DEF Y
<1>14. Cong(q, (-v) * s + 0 * s) /\ Cong(c * w + s, 0) /\ Cong(v * w, 1)
  <2>1. Cong(q, (-v) * s + 0 * s)
    BY <1>11, <1>13
  <2>2. Cong(c * w + s, 0)
    BY <1>8, <1>13
  <2>3. Cong(v * w, 1)
    BY <1>9, <1>13
  <2> QED BY <2>1, <2>2, <2>3
<1>15. Cong(q, c)
  <2>1. /\ (-v) * s + 0 * s = (-v) * s /\ (-v) * s \in Int /\ c * w + s \in Int /\ v * w \in Int
        /\ -v \in Int /\ 0 \in Int /\ 1 \in Int
    OBVIOUS
  <2>2. Cong((-v) * (c * w + s), (-v) * 0) /\ Cong(c * (v * w), c * 1)
    BY <2>1, <1>14, CongTimes, CongRefl, Zenon
  <2>3. (-v) * (c * w + s) \in Int /\ c * (v * w) \in Int /\ (-v) * 0 \in Int /\ c * 1 \in Int
    OBVIOUS
  <2>4. Cong((-v) * (c * w + s) + c * (v * w), (-v) * 0 + c * 1)
    BY <2>2, <2>3, CongPlus, Zenon
  <2>5. (-v) * (c * w + s) + c * (v * w) = (-v) * s /\ (-v) * 0 + c * 1 = c
    <3>1. (-v) * (c * w + s) = (-v) * (c * w) + (-v) * s
      OBVIOUS
    <3>2. (-v) * (c * w) = -(c * (v * w))
      OBVIOUS
    <3> QED BY <2>1, <2>3, <3>1, <3>2
  <2>6. Cong((-v) * s, c) /\ Cong(q, (-v) * s)
    BY <2>1, <2>4, <2>5, <1>14
  <2> QED BY <2>1, <2>6, CongTrans, Zenon
<1>16. Cong(Combine(S), c) /\ Combine(S) \in Int
  <2>1. Combine(S) \in Int
    BY <1>1, <1>7
  <2> QED BY <2>1, <1>7, <1>13, <1>15, CongTrans, Zenon
<1> QED BY <1>7, <1>13, <1>16, CongEqual, Zenon

-----------------------------------------------------------------------------
(***************************************************************************)
(* Too few shares: interpolation.                                          *)
(***************************************************************************)

\* A polynomial with coefficients in the field.
LEMMA FieldRow ==
  ASSUME NEW m \in Nat, NEW seq \in [1..m -> Field]
  PROVE  seq \in [1..m -> Octet] /\ \A x \in Field : Eval(seq, x) \in Field /\ Eval(seq, x) \in Int
<1>1. Field \subseteq Octet
  BY PrimeType DEF Field, Octet
<1>2. \A i \in 1..m : seq[i] \in Field
  OBVIOUS
<1>3. seq \in [1..m -> Octet]
  BY <1>1, <1>2
<1>4. \A x \in Field : Eval(seq, x) \in Field
  BY <1>3, EvalType, Zenon
<1> QED BY <1>3, <1>4, FieldType, Zenon

\* A polynomial with one coefficient put in front.
LEMMA EvalLonger ==
  ASSUME NEW m \in Nat, NEW seq \in [1..m -> Field], NEW c \in Field
  PROVE  \E long \in [1..(m + 1) -> Field] :
           \A x \in Field : Eval(seq, x) \in Field /\ Cong(Eval(long, x), c + x * Eval(seq, x))
<1> DEFINE long == [i \in 1..(m + 1) |-> IF i = 1 THEN c ELSE seq[i - 1]]
<1>1. \A i \in 1..(m + 1) : i # 1 => i - 1 \in 1..m
  OBVIOUS
<1>2. \A i \in 1..m : i + 1 \in 1..(m + 1) /\ i + 1 # 1 /\ (i + 1) - 1 = i
  OBVIOUS
<1>3. 1 \in 1..(m + 1)
  OBVIOUS
<1>4. Field \subseteq Octet
  BY PrimeType DEF Field, Octet
<1>5. long \in [1..(m + 1) -> Field]
  BY <1>1
<1>6. long[1] = c /\ \A i \in 1..m : long[i + 1] = seq[i]
  BY <1>2, <1>3
<1> HIDE DEF long
<1>7. long \in [1..(m + 1) -> Octet] /\ seq \in [1..m -> Octet] /\ c \in Octet
  <2>1. m + 1 \in Nat /\ c \in Octet
    BY <1>4
  <2> QED BY <2>1, <1>5, FieldRow, Zenon
<1>8. ASSUME NEW x \in Field
      PROVE  Eval(seq, x) \in Field /\ Cong(Eval(long, x), c + x * Eval(seq, x))
  <2>1. Prefixed(long, c, seq, m)
    BY <1>6 DEF Prefixed
  <2>2. Cong(Eval(long, x), c + x * Eval(seq, x))
    BY <2>1, <1>7, EvalCons, Zenon
  <2> QED BY <2>2, FieldRow, Zenon
<1> QED BY <1>5, <1>8

\* A polynomial times x - a, plus a constant.
LEMMA EvalTimes ==
  ASSUME NEW n \in Nat, NEW g \in [1..n -> Field], NEW v \in Int, NEW a \in Field
  PROVE  \E f \in [1..(n + 1) -> Field] :
           \A x \in Field : Cong(Eval(f, x), v + (x - a) * Eval(g, x))
<1> DEFINE Fine(k, s, c) ==
             \E f \in [1..(k + 1) -> Field] :
               \A x \in Field : Cong(Eval(f, x), c + (x - a) * Eval(s, x))
           All(k) == \A s \in [1..k -> Field] : \A c \in Int : Fine(k, s, c)
           T == { k \in Nat : All(k) }
<1>a. Field \subseteq Octet /\ Field \subseteq Int /\ a \in Int
  BY PrimeType, FieldType DEF Field, Octet
<1>1. 0 \in T
  <2>1. ASSUME NEW s \in [1..0 -> Field], NEW c \in Int PROVE Fine(0, s, c)
    <3>1. c % P \in Field /\ c % P \in Int /\ Cong(c % P, c)
      <4>1. c % P \in Field /\ Cong(c, c % P)
        BY CongMod
      <4>2. c % P \in Int
        BY <4>1, <1>a
      <4> QED BY <4>1, <4>2, CongSym, Zenon
    <3>2. PICK f \in [1..(0 + 1) -> Field] :
            \A x \in Field : Eval(s, x) \in Field /\ Cong(Eval(f, x), (c % P) + x * Eval(s, x))
      <4>1. 0 \in Nat
        OBVIOUS
      <4> QED BY <4>1, <3>1, EvalLonger, Zenon
    <3>3. ASSUME NEW x \in Field PROVE Cong(Eval(f, x), c + (x - a) * Eval(s, x))
      <4>1. Eval(s, x) = 0
        <5>1. 0 \in Nat
          OBVIOUS
        <5> QED BY <5>1, FieldRow, EvalEmpty, Zenon
      <4>2. x \in Int /\ (c % P) + x * 0 = c % P /\ c + (x - a) * 0 = c
        <5>1. \A d, e \in Int : d + e * 0 = d
          OBVIOUS
        <5>2. x \in Int /\ x - a \in Int
          BY <1>a
        <5> QED BY <5>1, <5>2, <3>1, Zenon
      <4>3. Cong(Eval(f, x), (c % P) + x * 0)
        BY <3>2, <4>1
      <4>4. Eval(f, x) \in Int
        <5>1. 0 + 1 \in Nat
          OBVIOUS
        <5> QED BY <5>1, FieldRow, Zenon
      <4>5. Cong(Eval(f, x), c)
        BY <3>1, <4>2, <4>3, <4>4, CongTrans
      <4> QED BY <4>1, <4>2, <4>5
    <3> QED BY <3>3
  <2> HIDE DEF Fine
  <2> QED BY <2>1
<1>2. ASSUME NEW k \in T PROVE k + 1 \in T
  <2>0. k \in Nat /\ All(k) /\ k + 1 \in Nat
    <3>1. k \in Nat /\ All(k)
      <4> HIDE DEF All
      <4> QED OBVIOUS
    <3> HIDE DEF All
    <3> QED BY <3>1
  <2>1. ASSUME NEW s \in [1..(k + 1) -> Field], NEW c \in Int PROVE Fine(k + 1, s, c)
    <3>1. s[1] \in Field
      <4>1. 1 \in 1..(k + 1)
        BY <2>0
      <4> QED BY <4>1
    <3>2. PICK r \in [1..k -> Field] :
            \A x \in Field : Eval(r, x) \in Field /\ Cong(Eval(s, x), s[1] + x * Eval(r, x))
      BY <2>0, <1>a, EvalTail, Zenon
    <3>3. PICK f \in [1..(k + 1) -> Field] :
            \A x \in Field : Cong(Eval(f, x), s[1] + (x - a) * Eval(r, x))
      <4>1. s[1] \in Int
        BY <3>1, <1>a
      <4>2. Fine(k, r, s[1])
        <5> HIDE DEF Fine
        <5> QED BY <2>0, <4>1
      <4> QED BY <4>2
    <3> DEFINE d == c - a * s[1]
    <3>4. s[1] \in Int /\ d \in Int
      <4>1. s[1] \in Int
        BY <3>1, <1>a
      <4>2. \A j \in Int : c - a * j \in Int
        BY <1>a
      <4> QED BY <4>1, <4>2
    <3>5. d % P \in Field /\ d % P \in Int /\ Cong(d % P, d)
      <4> HIDE DEF d
      <4>1. d % P \in Field /\ Cong(d, d % P)
        BY <3>4, CongMod
      <4>2. d % P \in Int
        BY <4>1, <1>a
      <4> QED BY <3>4, <4>1, <4>2, CongSym, Zenon
    <3>6. PICK h \in [1..((k + 1) + 1) -> Field] :
            \A x \in Field : Eval(f, x) \in Field /\ Cong(Eval(h, x), (d % P) + x * Eval(f, x))
      BY <2>0, <3>5, EvalLonger, Zenon
    <3>7. ASSUME NEW x \in Field PROVE Cong(Eval(h, x), c + (x - a) * Eval(s, x))
      <4>1. Eval(h, x) \in Int /\ Eval(s, x) \in Int
        <5>1. (k + 1) + 1 \in Nat
          BY <2>0
        <5> QED BY <5>1, <2>0, FieldRow, Zenon
      <4>2. PICK m \in Int, p \in Int, q \in Int, u \in Int, e \in Int, b \in Int, z \in Int :
              /\ m = Eval(h, x) /\ p = Eval(f, x) /\ q = Eval(r, x) /\ u = Eval(s, x)
              /\ e = s[1] /\ b = d % P /\ z = x - a
        <5>1. Eval(f, x) \in Int /\ Eval(r, x) \in Int
          BY <2>0, FieldRow, Zenon
        <5>2. x - a \in Int
          BY <1>a
        <5> HIDE DEF d
        <5> QED BY <5>1, <5>2, <4>1, <3>4, <3>5, Zenon
      <4>3. /\ x \in Int /\ Cong(u, e + x * q) /\ Cong(p, e + z * q) /\ Cong(m, b + x * p)
            /\ Cong(b, c - a * e)
        <5>1. x \in Int
          BY <1>a
        <5>2. Cong(u, e + x * q)
          BY <3>2, <4>2
        <5>3. Cong(p, e + z * q)
          BY <3>3, <4>2
        <5>4. Cong(m, b + x * p)
          <6> HIDE DEF d
          <6> QED BY <3>6, <4>2
        <5>5. Cong(b, c - a * e)
          BY <3>5, <4>2
        <5> QED BY <5>1, <5>2, <5>3, <5>4, <5>5
      <4> HIDE DEF d
      <4>4. /\ x * p \in Int /\ e + z * q \in Int /\ x * (e + z * q) \in Int /\ c - a * e \in Int
            /\ b + x * p \in Int /\ (c - a * e) + x * (e + z * q) \in Int
            /\ e + x * q \in Int /\ z * u \in Int /\ z * (e + x * q) \in Int
        BY <1>a, <4>3
      <4>5. Cong(m, (c - a * e) + x * (e + z * q))
        <5>1. Cong(x * p, x * (e + z * q))
          BY <4>3, <4>4, CongTimes, CongRefl, Zenon
        <5>2. Cong(b + x * p, (c - a * e) + x * (e + z * q))
          BY <4>3, <4>4, <5>1, CongPlus, Zenon
        <5> QED BY <4>3, <4>4, <5>2, CongTrans, Zenon
      <4>6. Cong(c + z * (e + x * q), c + z * u)
        <5>1. Cong(e + x * q, u)
          BY <4>3, <4>4, CongSym, Zenon
        <5>2. Cong(z * (e + x * q), z * u)
          BY <4>4, <5>1, CongTimes, CongRefl, Zenon
        <5> QED BY <4>4, <5>2, CongPlus, CongRefl, Zenon
      <4>7. (c - a * e) + x * (e + z * q) = c + z * (e + x * q)
        <5>1. z * e = x * e - a * e
          BY <4>2, <4>3, <1>a
        <5>2. /\ z * (e + x * q) = z * e + z * (x * q) /\ x * (e + z * q) = x * e + x * (z * q)
              /\ x * (z * q) = z * (x * q)
          BY <4>3
        <5>3. x * e \in Int /\ a * e \in Int /\ z * (x * q) \in Int
          BY <4>3, <1>a
        <5>4. PICK i \in Int, j \in Int, k1 \in Int : i = x * e /\ j = a * e /\ k1 = z * (x * q)
          BY <5>3, Zenon
        <5>5. c \in Int /\ (c - j) + (i + k1) = c + ((i - j) + k1)
          BY <1>a, <4>3
        <5>6. x * (e + z * q) = i + k1 /\ z * (e + x * q) = (i - j) + k1
          BY <5>1, <5>2, <5>4, Zenon
        <5> QED BY <5>4, <5>5, <5>6, Zenon
      <4>8. Cong(m, c + z * u)
        <5>1. c + z * u \in Int /\ c + z * (e + x * q) \in Int
          <6>1. \A i, j \in Int : i + j \in Int
            OBVIOUS
          <6> QED BY <4>4, <6>1, Zenon
        <5>2. Cong(m, c + z * (e + x * q))
          BY <4>5, <4>7
        <5> QED BY <5>1, <5>2, <4>6, CongTrans, Zenon
      <4> QED BY <4>2, <4>8, Zenon
    <3> HIDE DEF d
    <3> QED BY <3>7
  <2> HIDE DEF Fine
  <2> QED BY <2>0, <2>1
<1>3. n \in T
  <2>1. T \in SUBSET Nat
    OBVIOUS
  <2> HIDE DEF T
  <2> QED BY <2>1, <1>1, <1>2, SetInduction
<1>4. Fine(n, g, v)
  <2> HIDE DEF Fine
  <2> QED BY <1>3
<1> QED BY <1>4

\* Through any values at n points goes a polynomial of n coefficients.
LEMMA Interpolates ==
  ASSUME NEW S \in SUBSET Field, NEW v \in [Field -> Int]
  PROVE  \E f \in [1..Cardinality(S) -> Field] : \A x \in S : Cong(Eval(f, x), v[x])
<1> DEFINE Through(s, u) == \E f \in [1..Cardinality(s) -> Field] : \A x \in s : Cong(Eval(f, x), u[x])
           C == { s \in SUBSET Field : \A u \in [Field -> Int] : Through(s, u) }
<1>1. {} \in C
  <2>1. ASSUME NEW u \in [Field -> Int] PROVE Through({}, u)
    <3>1. [i \in 1..Cardinality({}) |-> 0] \in [1..Cardinality({}) -> Field]
      BY FieldType
    <3> QED BY <3>1
  <2> HIDE DEF Through
  <2> QED BY <2>1
<1>2. ASSUME NEW s \in SUBSET Field, s # {}, \A x \in s : s \ {x} \in C
      PROVE  s \in C
  <2>1. ASSUME NEW u \in [Field -> Int] PROVE Through(s, u)
    <3>1. PICK a \in s : TRUE
      BY <1>2
    <3> DEFINE r == s \ {a}
               Slope(x) == CHOOSE e \in Int : Cong((x - a) * e, u[x] - u[a])
               w == [x \in Field |-> IF x \in r THEN Slope(x) ELSE 0]
    <3>2. a \in Field /\ a \in Int /\ u[a] \in Int /\ r \in SUBSET Field /\ a \notin r
      BY FieldType
    <3>3. ASSUME NEW x \in r
          PROVE  /\ x \in Field /\ x \in Int /\ u[x] \in Int
                 /\ Slope(x) \in Int /\ Cong((x - a) * Slope(x), u[x] - u[a])
      <4>1. x \in Field /\ x \in Int /\ u[x] \in Int /\ x # a
        BY FieldType
      <4>2. PICK d \in Int, t \in Int : d = x - a /\ t = u[x] - u[a]
        <5>1. x - a \in Int /\ u[x] - u[a] \in Int
          BY <3>2, <4>1
        <5> QED BY <5>1
      <4>3. ~Cong(d, 0)
        <5>1. ASSUME Cong(d, 0) PROVE FALSE
          <6>1. Cong(d + a, 0 + a) /\ d + a = x /\ 0 + a = a
            <7>1. 0 \in Int
              OBVIOUS
            <7>2. Cong(d + a, 0 + a)
              BY <3>2, <5>1, <7>1, CongPlus, CongRefl, Zenon
            <7>3. d + a = x /\ 0 + a = a
              BY <3>2, <4>1, <4>2
            <7> QED BY <7>2, <7>3
          <6>2. Cong(x, a)
            BY <6>1
          <6> QED BY <6>2, <3>2, <4>1, CongEqual
        <5> QED BY <5>1
      <4>4. PICK i \in Int : Cong(d * i, 1)
        BY <4>3, InverseExists, Zenon
      <4>5. Cong((d * i) * t, 1 * t) /\ (d * i) * t = d * (i * t) /\ 1 * t = t /\ i * t \in Int
        <5>1. d * i \in Int /\ 1 \in Int /\ (d * i) * t = d * (i * t) /\ 1 * t = t /\ i * t \in Int
          OBVIOUS
        <5> QED BY <5>1, <4>4, CongTimes, CongRefl, Zenon
      <4>6. \E e \in Int : Cong((x - a) * e, u[x] - u[a])
        BY <4>2, <4>5
      <4>7. Slope(x) \in Int /\ Cong((x - a) * Slope(x), u[x] - u[a])
        BY <4>6, Zenon
      <4> QED BY <4>1, <4>7, Zenon
    <3> HIDE DEF Slope
    <3>4. w \in [Field -> Int] /\ \A x \in r : w[x] = Slope(x)
      BY <3>3
    <3> HIDE DEF w
    <3>5. Cardinality(s) \in Nat /\ Cardinality(r) \in Nat /\ Cardinality(s) = Cardinality(r) + 1
      <4>1. Cardinality(s) \in Nat /\ Cardinality(r) = Cardinality(s) - 1
        BY FieldCards
      <4>2. Cardinality(r) \in Nat
        BY <3>2, FieldCards
      <4> HIDE DEF r
      <4> QED BY <4>1, <4>2
    <3>6. PICK g \in [1..Cardinality(r) -> Field] : \A x \in r : Cong(Eval(g, x), w[x])
      <4>1. r \in C
        <5> HIDE DEF C
        <5> QED BY <1>2
      <4>2. Through(r, w)
        <5> HIDE DEF Through, r
        <5> QED BY <4>1, <3>4
      <4> QED BY <4>2
    <3> HIDE DEF r
    <3>7. PICK f \in [1..(Cardinality(r) + 1) -> Field] :
            \A x \in Field : Cong(Eval(f, x), u[a] + (x - a) * Eval(g, x))
      BY <3>2, <3>5, EvalTimes, Zenon
    <3>8. \A x \in Field : Eval(f, x) \in Int /\ Eval(g, x) \in Int
      <4>1. Cardinality(r) + 1 \in Nat
        BY <3>5
      <4> QED BY <4>1, <3>5, FieldRow, Zenon
    <3>9. ASSUME NEW x \in s PROVE Cong(Eval(f, x), u[x])
      <4>1. CASE x = a
        <5>1. u[a] + (a - a) * Eval(g, a) = u[a]
          <6>1. \A d, e \in Int : d + (a - a) * e = d
            BY <3>2
          <6> QED BY <6>1, <3>2, <3>8
        <5> QED BY <4>1, <5>1, <3>2, <3>7
      <4>2. CASE x # a
        <5>1. x \in r /\ x \in Field /\ x \in Int
          BY <4>2, FieldType DEF r
        <5>2. PICK m \in Int, p \in Int, e \in Int, d \in Int, t \in Int, b \in Int :
                /\ m = Eval(f, x) /\ p = Eval(g, x) /\ e = Slope(x) /\ d = x - a
                /\ t = u[x] /\ b = u[a]
          <6>1. x - a \in Int
            BY <3>2, <5>1
          <6> QED BY <6>1, <3>2, <3>3, <3>8, <5>1, Zenon
        <5>3. Cong(m, b + d * p) /\ Cong(p, e) /\ Cong(d * e, t - b)
          <6>1. Cong(m, b + d * p)
            BY <3>7, <5>1, <5>2
          <6>2. Cong(p, e)
            BY <3>4, <3>6, <5>1, <5>2
          <6>3. Cong(d * e, t - b)
            BY <3>3, <5>1, <5>2
          <6> QED BY <6>1, <6>2, <6>3
        <5>4. /\ d * p \in Int /\ d * e \in Int /\ t - b \in Int /\ b + (t - b) = t
              /\ b + d * p \in Int /\ b + d * e \in Int
          OBVIOUS
        <5>5. Cong(d * p, d * e)
          BY <5>3, CongTimes, CongRefl, Zenon
        <5>6. Cong(d * p, t - b)
          BY <5>3, <5>4, <5>5, CongTrans, Zenon
        <5>7. Cong(b + d * p, b + (t - b))
          BY <5>4, <5>6, CongPlus, CongRefl, Zenon
        <5>8. Cong(m, t)
          <6>1. Cong(b + d * p, t)
            BY <5>4, <5>7
          <6> QED BY <6>1, <5>3, <5>4, CongTrans, Zenon
        <5> QED BY <5>2, <5>8
      <4> QED BY <4>1, <4>2
    <3>10. f \in [1..Cardinality(s) -> Field]
      BY <3>5
    <3> QED BY <3>9, <3>10
  <2> HIDE DEF Through
  <2> QED BY <2>1
<1>3. S \in C
  <2> HIDE DEF C
  <2> QED BY <1>1, <1>2, FieldSetInduction
<1> QED BY <1>3

\* The polynomial with first coefficient c and then f takes S to u.
Explains(f, n, c, S, u) ==
  \A long \in [1..(n + 1) -> Octet] :
    long[1] = c /\ (\A i \in 1..n : long[i + 1] = f[i]) => \A x \in S : Eval(long, x) = u[x]

\* So whatever the byte, some polynomial takes it to the given shares.
LEMMA Hides ==
  ASSUME NEW S \in SUBSET Field, 0 \notin S, NEW n \in Nat, Cardinality(S) = n,
         NEW c \in Field, NEW u \in [Field -> Field]
  PROVE  \E f \in [1..n -> Field] : Explains(f, n, c, S, u)
<1> DEFINE Slope(x) == CHOOSE e \in Int : Cong(x * e, u[x] - c)
           v == [x \in Field |-> IF x \in S THEN Slope(x) ELSE 0]
<1>a. Field \subseteq Int /\ 0 \in Field /\ c \in Int
  BY FieldType
<1>1. ASSUME NEW x \in S
      PROVE  /\ x \in Field /\ x \in Int /\ u[x] \in Field /\ u[x] \in Int
             /\ Slope(x) \in Int /\ Cong(x * Slope(x), u[x] - c)
  <2>1. x \in Field /\ x \in Int /\ u[x] \in Field /\ u[x] \in Int /\ x # 0
    BY <1>a
  <2>2. PICK t \in Int : t = u[x] - c
    <3>1. u[x] - c \in Int
      BY <1>a, <2>1
    <3> QED BY <3>1
  <2>3. ~Cong(x, 0)
    BY <1>a, <2>1, CongEqual
  <2>4. PICK i \in Int : Cong(x * i, 1)
    BY <2>1, <2>3, InverseExists, Zenon
  <2>5. Cong((x * i) * t, 1 * t) /\ (x * i) * t = x * (i * t) /\ 1 * t = t /\ i * t \in Int
    <3>1. x * i \in Int /\ 1 \in Int /\ (x * i) * t = x * (i * t) /\ 1 * t = t /\ i * t \in Int
      BY <2>1
    <3> QED BY <3>1, <2>4, CongTimes, CongRefl, Zenon
  <2>6. \E e \in Int : Cong(x * e, u[x] - c)
    BY <2>2, <2>5
  <2>7. Slope(x) \in Int /\ Cong(x * Slope(x), u[x] - c)
    BY <2>6, Zenon
  <2> QED BY <2>1, <2>7, Zenon
<1> HIDE DEF Slope
<1>2. v \in [Field -> Int] /\ \A x \in S : v[x] = Slope(x)
  BY <1>1
<1> HIDE DEF v
<1>3. PICK f \in [1..n -> Field] : \A x \in S : Cong(Eval(f, x), v[x])
  BY <1>2, Interpolates
<1>4. f \in [1..n -> Octet] /\ c \in Octet
  <2>1. c \in Octet
    BY PrimeType DEF Field, Octet
  <2> QED BY <1>a, <2>1, FieldRow, Zenon
<1>5. ASSUME NEW long \in [1..(n + 1) -> Octet], long[1] = c,
             \A i \in 1..n : long[i + 1] = f[i], NEW x \in S
      PROVE  Eval(long, x) = u[x]
  <2>1. /\ Eval(f, x) \in Field /\ Eval(long, x) \in Field
        /\ Cong(Eval(long, x), c + x * Eval(f, x))
    <3>1. f \in [1..n -> Octet] /\ c \in Octet /\ x \in Field
      BY <1>1, <1>4
    <3>2. Prefixed(long, c, f, n)
      BY <1>5 DEF Prefixed
    <3> QED BY <3>1, <3>2, <1>5, EvalCons, Zenon
  <2>2. PICK m \in Int, p \in Int, e \in Int, t \in Int :
          m = Eval(long, x) /\ p = Eval(f, x) /\ e = Slope(x) /\ t = u[x]
    BY <1>a, <1>1, <2>1
  <2>3. Cong(m, c + x * p) /\ Cong(p, e) /\ Cong(x * e, t - c) /\ x \in Int
    BY <1>1, <1>2, <1>3, <2>1, <2>2
  <2>4. /\ x * p \in Int /\ x * e \in Int /\ t - c \in Int /\ c + (t - c) = t /\ c + x * p \in Int
    BY <1>a, <2>3
  <2>5. Cong(x * p, x * e)
    BY <2>3, CongTimes, CongRefl, Zenon
  <2>6. Cong(x * p, t - c)
    BY <2>3, <2>4, <2>5, CongTrans, Zenon
  <2>7. Cong(c + x * p, c + (t - c))
    BY <1>a, <2>4, <2>6, CongPlus, CongRefl, Zenon
  <2>8. Cong(m, t)
    <3>1. Cong(c + x * p, t)
      BY <2>4, <2>7
    <3> QED BY <3>1, <2>3, <2>4, CongTrans, Zenon
  <2> QED BY <1>1, <2>1, <2>2, <2>8, CongEqual, Zenon
<1>6. Explains(f, n, c, S, u)
  BY <1>5 DEF Explains
<1> QED BY <1>3, <1>6

-----------------------------------------------------------------------------
(***************************************************************************)
(* The protocol.                                                           *)
(***************************************************************************)

\* The rows of a byte are its polynomials.
LEMMA RowIs ==
  ASSUME NEW b, NEW n \in Nat, NEW drawn \in [1..n -> Octet]
  PROVE  <<b>> \o drawn = [i \in 1..(n + 1) |-> IF i = 1 THEN b ELSE drawn[i - 1]]
<1>1. drawn \in Seq(Octet) /\ Len(drawn) = n
  OBVIOUS
<1>2. Len(<<b>>) = 1 /\ Len(<<b>> \o drawn) = n + 1 /\ Len(<<>>) = 0
  BY <1>1
<1>3. \A i \in 1..(n + 1) : (<<b>> \o drawn)[i] = IF i = 1 THEN b ELSE drawn[i - 1]
  BY <1>1
<1>4. <<b>> \o drawn = [i \in 1..(n + 1) |-> IF i = 1 THEN b ELSE drawn[i - 1]]
  BY <1>1, <1>2, <1>3
<1> QED BY <1>4

\* What split_secret draws.
LEMMA RowsAre ==
  ASSUME quorum \in Quorums, NEW b \in Octet, NEW long \in Rows(b)
  PROVE  long \in [1..quorum[1] -> Octet] /\ long[1] = b
<1>1. quorum[1] \in 2..15 /\ Coefs \subseteq 0..(P - 1) /\ P \in 3..255
  BY ShamirAssumption
<1>2. PICK n \in Nat : n = quorum[1] - 1 /\ quorum[1] = n + 1
  BY <1>1
<1>3. PICK drawn \in [1..n -> Coefs] : long = <<b>> \o drawn
  BY <1>2 DEF Rows
<1>4. drawn \in [1..n -> Octet]
  <2>1. Coefs \subseteq Octet
    BY <1>1 DEF Octet
  <2>2. \A i \in 1..n : drawn[i] \in Coefs
    OBVIOUS
  <2> QED BY <2>1, <2>2
<1>5. long = [i \in 1..(n + 1) |-> IF i = 1 THEN b ELSE drawn[i - 1]]
  <2>1. <<b>> \o drawn = [i \in 1..(n + 1) |-> IF i = 1 THEN b ELSE drawn[i - 1]]
    BY <1>4, RowIs
  <2> QED BY <1>3, <2>1, Zenon
<1>6. \A i \in 1..(n + 1) : i # 1 => i - 1 \in 1..n
  OBVIOUS
<1>7. long \in [1..(n + 1) -> Octet]
  BY <1>4, <1>5, <1>6
<1>8. long[1] = b
  <2>1. 1 \in 1..(n + 1)
    OBVIOUS
  <2> QED BY <1>5, <2>1
<1> QED BY <1>2, <1>7, <1>8

\* The shares are those of a polynomial whose first coefficient is the byte.
SharesInv ==
  /\ byte \in Bytes /\ isLast \in BOOLEAN /\ quorum \in Quorums
  /\ \/ row = <<>> /\ y = <<>> /\ presented = {}
     \/ /\ row \in Rows(Canonical)
        /\ y = [x \in 1..quorum[2] |-> Eval(row, x)]
        /\ presented \in SUBSET (1..quorum[2])

\* That is inductive.
LEMMA SharesInvHolds == SplitSpec => []SharesInv
<1>1. SplitInit => SharesInv
  BY DEF SplitInit, SharesInv
<1>2. SharesInv /\ [SplitNext]_splitVars => SharesInv'
  <2>1. SUFFICES ASSUME SharesInv, [SplitNext]_splitVars PROVE SharesInv'
    OBVIOUS
  <2>2. CASE Split
    <3>1. byte' = byte /\ isLast' = isLast /\ quorum' = quorum /\ presented' = presented /\ row = <<>>
      BY <2>2 DEF Split
    <3>2. Canonical' = Canonical
      BY <3>1 DEF Canonical
    <3>3. presented \in SUBSET (1..quorum[2])
      BY <2>1, <3>1 DEF SharesInv
    <3>4. row' \in Rows(Canonical) /\ y' = [x \in 1..quorum[2] |-> Eval(row', x)]
      BY <2>2 DEF Split
    <3>5. (row \in Rows(Canonical))' /\ (y = [x \in 1..quorum[2] |-> Eval(row, x)])'
      BY <3>1, <3>2, <3>4 DEF Rows
    <3> QED BY <2>1, <3>1, <3>3, <3>5 DEF SharesInv
  <2>3. CASE Present
    <3>1. /\ byte' = byte /\ isLast' = isLast /\ quorum' = quorum /\ row' = row /\ y' = y
          /\ row # <<>> /\ presented' \in SUBSET (1..quorum[2])
      BY <2>3 DEF Present
    <3>2. Canonical' = Canonical /\ (Rows(Canonical))' = Rows(Canonical)
      BY <3>1 DEF Canonical, Rows
    <3> QED BY <2>1, <3>1, <3>2 DEF SharesInv
  <2>4. CASE UNCHANGED splitVars
    <3>1. /\ byte' = byte /\ isLast' = isLast /\ quorum' = quorum /\ row' = row /\ y' = y
          /\ presented' = presented
      BY <2>4 DEF splitVars
    <3>2. Canonical' = Canonical /\ (Rows(Canonical))' = Rows(Canonical)
      BY <3>1 DEF Canonical, Rows
    <3> QED BY <2>1, <3>1, <3>2 DEF SharesInv
  <2> QED BY <2>1, <2>2, <2>3, <2>4 DEF SplitNext
<1> QED BY <1>1, <1>2, PTL DEF SplitSpec

\* What the invariant says of the numbers.
LEMMA SharesType ==
  ASSUME SharesInv
  PROVE  /\ quorum \in Quorums /\ quorum[1] \in 2..15 /\ quorum[2] \in 1..15
         /\ quorum[1] - 1 \in Nat /\ (quorum[1] - 1) + 1 = quorum[1]
         /\ 1..quorum[2] \in SUBSET Field /\ 0 \notin 1..quorum[2]
         /\ Canonical \in Octet
<1>1. /\ quorum[1] \in 2..15 /\ quorum[2] \in quorum[1]..15 /\ quorum[2] < P /\ P \in 3..255
      /\ byte \in Octet
  BY ShamirAssumption DEF SharesInv, Octet
<1>2. Canonical \in Octet
  <2>1. byte % P \in 0..(P - 1)
    BY <1>1 DEF Octet
  <2> QED BY <1>1, <2>1 DEF Canonical, Octet
<1>3. quorum[1] - 1 \in Nat /\ (quorum[1] - 1) + 1 = quorum[1] /\ quorum[2] \in 1..15
  <2>1. \A k \in 2..15 : k - 1 \in Nat /\ (k - 1) + 1 = k /\ \A m \in k..15 : m \in 1..15
    OBVIOUS
  <2> QED BY <1>1, <2>1, Zenon
<1>4. 1..quorum[2] \in SUBSET Field /\ 0 \notin 1..quorum[2]
  BY <1>1, <1>3 DEF Field
<1> QED BY <1>1, <1>2, <1>3, <1>4 DEF SharesInv

\* QuorumRestores: of any byte below P, k shares or more, whichever of them are
\* presented, give back the byte that split_secret split, through combine_shares'
\* inverses, products and sums in 16 bits.
THEOREM QuorumAlwaysRestoresByte == SplitSpec => []QuorumRestores
<1>1. SharesInv => QuorumRestores
  <2>1. SUFFICES ASSUME SharesInv, Cardinality(presented) >= quorum[1], Canonical < P
                 PROVE  Combine(presented) = Canonical
    BY DEF QuorumRestores, Enough
  <2>2. /\ row \in Rows(Canonical) /\ y = [x \in 1..quorum[2] |-> Eval(row, x)]
        /\ presented \in SUBSET (1..quorum[2])
    <3>1. presented # {}
      <4>1. ~(0 >= quorum[1])
        BY <2>1, SharesType
      <4> QED BY <2>1, <4>1, FS_EmptySet
    <3> QED BY <2>1, <3>1 DEF SharesInv
  <2>3. row \in [1..quorum[1] -> Octet] /\ row[1] = Canonical
    BY <2>1, <2>2, SharesType, RowsAre
  <2>4. presented \in SUBSET Field /\ 0 \notin presented
    BY <2>1, <2>2, SharesType
  <2>5. \A x \in presented : y[x] = Eval(row, x)
    BY <2>2
  <2>6. quorum[1] \in Nat /\ quorum[1] >= 1
    <3>1. quorum[1] \in 2..15
      BY <2>1, SharesType
    <3> QED BY <3>1
  <2>7. row[1] \in Field
    <3>1. Canonical \in Octet
      BY <2>1, SharesType
    <3> QED BY <2>1, <2>3, <3>1, PrimeType DEF Field, Octet
  <2> QED BY <2>1, <2>3, <2>4, <2>5, <2>6, <2>7, Restores
<1> QED BY <1>1, SharesInvHolds, PTL

\* SharesHideByte: when every coefficient of the field may be drawn, as
\* split_secret's gen_range(0..GF_P) does, k - 1 shares of a byte are also the
\* shares of every other byte below P, so they tell nothing about it.
THEOREM SharesAlwaysHideByte ==
  ASSUME Coefs = 0..(P - 1)
  PROVE  SplitSpec => []SharesHideByte
<1>1. SharesInv => SharesHideByte
  <2>1. SUFFICES ASSUME SharesInv, row # <<>>, NEW hidden \in 0..(P - 1),
                        NEW xs \in SUBSET (1..quorum[2]), Cardinality(xs) = quorum[1] - 1
                 PROVE  \E other \in Rows(hidden) : \A x \in xs : Eval(other, x) = y[x]
    BY DEF SharesHideByte
  <2>2. row \in Rows(Canonical) /\ y = [x \in 1..quorum[2] |-> Eval(row, x)]
    BY <2>1 DEF SharesInv
  <2>3. row \in [1..quorum[1] -> Octet]
    <3>1. Canonical \in Octet /\ quorum \in Quorums
      BY <2>1, SharesType
    <3> QED BY <2>2, <3>1, RowsAre
  <2>4. xs \in SUBSET Field /\ 0 \notin xs /\ hidden \in Field /\ hidden \in Octet
    <3>1. hidden \in Field /\ hidden \in Octet
      BY PrimeType DEF Field, Octet
    <3>2. 1..quorum[2] \in SUBSET Field /\ 0 \notin 1..quorum[2]
      BY <2>1, SharesType
    <3>3. xs \in SUBSET Field /\ 0 \notin xs
      BY <3>2, Zenon
    <3> QED BY <3>1, <3>3
  <2> DEFINE u == [x \in Field |-> Eval(row, x)]
  <2>5. u \in [Field -> Field] /\ \A x \in xs : u[x] = y[x]
    <3>1. quorum[1] \in Nat
      BY <2>1, SharesType
    <3>2. \A x \in Field : Eval(row, x) \in Field
      BY <2>3, <3>1, EvalType
    <3> QED BY <2>2, <2>4, <3>2
  <2> HIDE DEF u
  <2>6. PICK n \in Nat : n = quorum[1] - 1 /\ n = Cardinality(xs)
    BY <2>1, SharesType
  <2>7. PICK f \in [1..n -> Field] : Explains(f, n, hidden, xs, u)
    <3>1. Cardinality(xs) = n /\ u \in [Field -> Field]
      BY <2>5, <2>6
    <3> QED BY <3>1, <2>4, Hides, Zenon
  <2>8. f \in [1..n -> Octet]
    BY <2>6, FieldRow, Zenon
  <2> DEFINE other == <<hidden>> \o f
  <2>9. other \in Rows(hidden)
    <3>1. f \in [1..(quorum[1] - 1) -> Coefs]
      <4>1. 1..n = 1..(quorum[1] - 1) /\ Field = Coefs
        BY <2>6 DEF Field
      <4> QED BY <4>1, Zenon
    <3> QED BY <3>1 DEF Rows
  <2>10. \A x \in xs : Eval(other, x) = u[x]
    <3>1. other = [i \in 1..(n + 1) |-> IF i = 1 THEN hidden ELSE f[i - 1]]
      BY <2>8, RowIs
    <3> HIDE DEF other
    <3>2. \A i \in 1..(n + 1) : i # 1 => i - 1 \in 1..n
      OBVIOUS
    <3>3. 1 \in 1..(n + 1) /\ \A i \in 1..n : i + 1 \in 1..(n + 1) /\ i + 1 # 1 /\ (i + 1) - 1 = i
      OBVIOUS
    <3>4. other \in [1..(n + 1) -> Octet]
      BY <2>4, <2>8, <3>1, <3>2
    <3>5. other[1] = hidden /\ \A i \in 1..n : other[i + 1] = f[i]
      BY <3>1, <3>3
    <3> QED BY <2>7, <3>4, <3>5 DEF Explains
  <2> HIDE DEF other
  <2> QED BY <2>5, <2>9, <2>10
<1> QED BY <1>1, SharesInvHolds, PTL
=============================================================================
