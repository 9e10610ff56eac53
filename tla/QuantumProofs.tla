--------------------------- MODULE QuantumProofs ----------------------------
(***************************************************************************)
(* Proofs about the quantum layer: QuantumKey, for keys of any length, any *)
(* blocks and any shuffles (reconciliation only ever corrects what the     *)
(* channel broke, and a pass leaves every block it is done with settled),  *)
(* and SixState, for any number of pulses and any thresholds (the verdict  *)
(* on a genuine signature follows the damage done to its rounds).          *)
(***************************************************************************)
EXTENDS QuantumKey, SixState, FiniteSetTheorems, TLAPS

-----------------------------------------------------------------------------
(***************************************************************************)
(* The raw key and its reconciliation.                                     *)
(***************************************************************************)

\* What a Hamming block corrects was wrong.
LEMMA SyndromePlace ==
  ASSUME NEW block, NEW s, Errors(block) = {s}
  PROVE  block[s] \in wrong
<1>1. s \in Errors(block)
  OBVIOUS
<1>2. QED
  BY <1>1 DEF Errors

LEMMA ErrorsAccountedInit == KeyInit => ErrorsAccounted
BY DEF KeyInit, ErrorsAccounted

\* Sifting and the beginning of the reconciliation.
LEMMA BeginKeeps ==
  ASSUME ErrorsAccounted,
         \/ \E flipped, luck \in BOOLEAN, eve \in {"none", "same", "other"} :
              Transmit(flipped, eve, luck)
         \/ \E block \in {BlockFor(sifted, Cardinality(wrong)), 7} : Reconcile(block)
  PROVE  ErrorsAccounted'
<1>1. ASSUME NEW flipped \in BOOLEAN, NEW luck \in BOOLEAN, NEW eve \in {"none", "same", "other"},
             Transmit(flipped, eve, luck)
      PROVE  ErrorsAccounted'
  BY <1>1 DEF Transmit, ErrorsAccounted
<1>2. ASSUME NEW block \in {BlockFor(sifted, Cardinality(wrong)), 7}, Reconcile(block)
      PROVE  ErrorsAccounted'
  BY <1>2 DEF Reconcile, ErrorsAccounted
<1>3. QED
  BY <1>1, <1>2

\* One Hamming block.
LEMMA HammingKeeps ==
  ASSUME ErrorsAccounted, HammingBlock
  PROVE  ErrorsAccounted'
<1> DEFINE block == BlockAt(chunk)
           s     == Syndrome(block)
<1>1. UNCHANGED <<disturbed, phase>> /\ phase = "passes"
  BY DEF HammingBlock
<1>2. CASE UNCHANGED <<wrong, corrected>>
  BY <1>1, <1>2 DEF ErrorsAccounted
<1>3. CASE /\ Errors(block) = {s}
           /\ wrong' = wrong \ {block[s]} /\ corrected' = corrected \cup {block[s]}
  <2>1. block[s] \in wrong
    BY <1>3, SyndromePlace
  <2>2. QED
    BY <1>1, <1>3, <2>1 DEF ErrorsAccounted
<1>4. QED
  BY <1>2, <1>3 DEF HammingBlock

\* One segment of the bisection.
LEMMA BisectKeeps ==
  ASSUME ErrorsAccounted, phase # "sifting", Bisect
  PROVE  ErrorsAccounted'
<1> DEFINE seg == Last(stack)
<1>1. UNCHANGED <<disturbed, phase>>
  BY DEF Bisect
<1>2. CASE UNCHANGED <<wrong, corrected>>
  BY <1>1, <1>2 DEF ErrorsAccounted
<1>3. CASE /\ wrong' = wrong \ {seg[1]}
           /\ corrected' = IF seg[1] \in wrong THEN corrected \cup {seg[1]} ELSE corrected
  BY <1>1, <1>3 DEF ErrorsAccounted
<1>4. QED
  BY <1>2, <1>3 DEF Bisect

\* While bits are sifted nothing is being bisected.
SiftingFirst == phase = "sifting" => stack = <<>>

LEMMA KeyInvariant == KeySpec => [](ErrorsAccounted /\ SiftingFirst)
<1>1. KeyInit => ErrorsAccounted /\ SiftingFirst
  BY ErrorsAccountedInit DEF KeyInit, SiftingFirst
<1>2. ErrorsAccounted /\ SiftingFirst /\ [KeyNext]_keyVars => (ErrorsAccounted /\ SiftingFirst)'
  <2>1. SUFFICES ASSUME ErrorsAccounted, SiftingFirst, [KeyNext]_keyVars
                 PROVE  ErrorsAccounted' /\ SiftingFirst'
    OBVIOUS
  <2>2. CASE UNCHANGED keyVars
    BY <2>1, <2>2 DEF keyVars, ErrorsAccounted, SiftingFirst
  <2>3. CASE \/ \E flipped, luck \in BOOLEAN, eve \in {"none", "same", "other"} :
                  Transmit(flipped, eve, luck)
             \/ \E block \in {BlockFor(sifted, Cardinality(wrong)), 7} : Reconcile(block)
    <3>1. ErrorsAccounted'
      BY <2>1, <2>3, BeginKeeps
    <3>2. SiftingFirst'
      BY <2>1, <2>3 DEF Transmit, Reconcile, SiftingFirst
    <3>3. QED
      BY <3>1, <3>2
  <2>4. CASE HammingBlock
    BY <2>1, <2>4, HammingKeeps DEF HammingBlock, SiftingFirst
  <2>5. CASE Bisect
    <3>1. phase # "sifting"
      BY <2>1, <2>5 DEF Bisect, SiftingFirst
    <3>2. ErrorsAccounted'
      BY <2>1, <2>5, <3>1, BisectKeeps
    <3>3. SiftingFirst'
      BY <2>5, <3>1 DEF Bisect, SiftingFirst
    <3>4. QED
      BY <3>2, <3>3
  <2>6. CASE OpenBlock
    BY <2>1, <2>6 DEF OpenBlock, ErrorsAccounted, SiftingFirst
  <2>7. ASSUME NEW order \in Orders[sifted], EndPass(order)
        PROVE  ErrorsAccounted' /\ SiftingFirst'
    BY <2>1, <2>7 DEF EndPass, ErrorsAccounted, SiftingFirst
  <2>8. QED
    BY <2>1, <2>2, <2>3, <2>4, <2>5, <2>6, <2>7 DEF KeyNext
<1>3. QED
  BY <1>1, <1>2, PTL DEF KeySpec

\* For a key of any length, however its positions are shuffled and blocked: what
\* was corrected and what is still wrong are the errors of the channel, each once.
THEOREM ErrorsAlwaysAccounted == KeySpec => []ErrorsAccounted
BY KeyInvariant, PTL

-----------------------------------------------------------------------------
(***************************************************************************)
(* What a pass is done with.  The inductive invariant: every block behind  *)
(* the pass is settled, and of the block being bisected the stack holds a  *)
(* segment as odd as the block, and at most one more, which is even.       *)
(* Segments are intervals of places of the order, so setting a position    *)
(* right touches one block only.                                           *)
(***************************************************************************)

\* p is an order of n positions, and a segment of it the places after a, up to b.
IsOrder(p, n) == n \in Nat /\ p \in Seq(1..n) /\ Len(p) = n
Within(a, b, n) == a \in 0..n /\ b \in 0..n /\ a <= b
IsSegment(segment, p, a, b) == segment = SubSeq(p, a + 1, b)

\* The places of a segment that hold a position of w.
ErrorsOf(w, segment) == { i \in 1..Len(segment) : segment[i] \in w }

\* The places after `a`, up to b, of an order p that hold a position of w.
WrongPlaces(w, p, a, b) == { k \in a+1..b : p[k] \in w }
Odd(w, p, a, b) == Cardinality(WrongPlaces(w, p, a, b)) % 2 = 1

\* A shuffle permutes the positions.
IsPermutation(p, n) == IsOrder(p, n) /\ \A i, j \in 1..n : p[i] = p[j] => i = j

\* An interval of the places of such an order, and a place that may lie in it.
Placed(p, n, a, b, k) == IsPermutation(p, n) /\ a \in 0..n /\ b \in 0..n /\ k \in 1..n
Lies(k, a, b) == a < k /\ k <= b

KeyTypeOK ==
  /\ sifted \in 0..MaxSifted /\ wrong \in SUBSET (1..sifted)
  /\ pass \in Nat /\ chunk \in Nat
  /\ phase \in {"sifting", "passes", "done"}
  /\ phase = "passes" => block0 \in Nat \ {0} /\ IsPermutation(perm, sifted)
  /\ phase # "passes" => stack = <<>>

\* The block that begins after `from` is one the pass may leave behind.
EndOf(from) == IF from + BlockLength < sifted THEN from + BlockLength ELSE sifted

Settled(from) ==
  IF HammingPass
  THEN EndOf(from) = from + 7 => Cardinality(WrongPlaces(wrong, perm, from, EndOf(from))) # 1
  ELSE EndOf(from) >= from + 2 => ~Odd(wrong, perm, from, EndOf(from))

SettledBefore(end) == \A from \in 0..sifted : from < end /\ from % BlockLength = 0 => Settled(from)

\* The bisection of the block after `from`: its first segment is as odd as the
\* block, and a second one, above it, is even.
Segment(a, b) == SubSeq(perm, a + 1, b)
Inside(from, a, b) == from <= a /\ a < b /\ b <= EndOf(from)

Bisecting(from) ==
  /\ ~HammingPass
  /\ \E a, b \in 0..sifted :
       /\ Inside(from, a, b)
       /\ Odd(wrong, perm, a, b) <=> Odd(wrong, perm, from, EndOf(from))
       /\ \/ stack = <<Segment(a, b)>>
          \/ \E c, d \in 0..sifted :
               /\ Inside(from, c, d) /\ ~Odd(wrong, perm, c, d)
               /\ stack = <<Segment(a, b), Segment(c, d)>>

PassInv ==
  phase = "passes" =>
    \/ /\ stack = <<>> /\ (chunk % BlockLength = 0 \/ chunk >= sifted)
       /\ SettledBefore(chunk)
    \/ \E open \in 0..sifted :
         /\ open < sifted /\ open % BlockLength = 0 /\ chunk = open + BlockLength
         /\ SettledBefore(open) /\ Bisecting(open)

KeyInv == KeyTypeOK /\ PassInv

-----------------------------------------------------------------------------
LEMMA MultipleOf ==
  ASSUME NEW n \in Nat \ {0}, NEW q \in Nat
  PROVE  (n * q) % n = 0
<1>1. PICK d \in Nat : d = (n * q) \div n
  OBVIOUS
<1>2. PICK r \in 0..(n - 1) : r = (n * q) % n
  OBVIOUS
<1>3. n * q = n * d + r
  BY <1>1, <1>2
<1>4. n * (q - d) = r
  BY <1>3
<1>5. CASE q <= d
  <2>1. n * (q - d) <= 0
    BY <1>5
  <2>2. QED
    BY <2>1, <1>4, <1>2
<1>6. CASE q >= d + 1
  <2>1. PICK e \in Nat : q - d = e + 1
    BY <1>6
  <2>2. n * (q - d) = n * e + n
    BY <2>1
  <2>3. n * e >= 0
    BY <2>1
  <2>4. n * (q - d) >= n
    BY <2>2, <2>3
  <2>5. QED
    BY <2>4, <1>4, <1>2
<1>7. QED
  BY <1>5, <1>6

\* Between two multiples of n there are at least n.
LEMMA MultiplesApart ==
  ASSUME NEW n \in Nat \ {0}, NEW a \in Nat, NEW b \in Nat, a % n = 0, b % n = 0, a < b
  PROVE  a + n <= b
<1>1. PICK p \in Nat : p = a \div n
  OBVIOUS
<1>2. PICK q \in Nat : q = b \div n
  OBVIOUS
<1>3. a = n * p /\ b = n * q
  BY <1>1, <1>2
<1>4. p < q
  <2>1. SUFFICES ASSUME q <= p PROVE FALSE
    OBVIOUS
  <2>2. n * q <= n * p
    BY <2>1
  <2>3. QED
    BY <2>2, <1>3
<1>5. PICK e \in Nat : q = p + 1 + e
  BY <1>4
<1>6. n * q = n * p + n + n * e
  BY <1>5
<1>7. n * e >= 0
  OBVIOUS
<1>8. QED
  BY <1>3, <1>6, <1>7

LEMMA NextMultiple ==
  ASSUME NEW n \in Nat \ {0}, NEW a \in Nat, a % n = 0
  PROVE  (a + n) % n = 0
<1>1. PICK p \in Nat : p = a \div n
  OBVIOUS
<1>2. a = n * p
  BY <1>1
<1>3. a + n = n * (p + 1)
  BY <1>2
<1>4. p + 1 \in Nat
  OBVIOUS
<1>5. QED
  BY <1>3, <1>4, MultipleOf

-----------------------------------------------------------------------------
LEMMA PlacesFinite ==
  ASSUME NEW w, NEW p, NEW a \in Nat, NEW b \in Nat
  PROVE  /\ IsFiniteSet(WrongPlaces(w, p, a, b))
         /\ Cardinality(WrongPlaces(w, p, a, b)) \in Nat
<1>1. IsFiniteSet(a+1..b)
  BY FS_Interval
<1>2. WrongPlaces(w, p, a, b) \subseteq a+1..b
  BY DEF WrongPlaces
<1>3. QED
  BY <1>1, <1>2, FS_Subset, FS_CardinalityType

LEMMA SegmentAt ==
  ASSUME NEW n \in Nat, NEW p \in Seq(1..n), Len(p) = n,
         NEW a \in 0..n, NEW b \in 0..n, a <= b
  PROVE  /\ SubSeq(p, a + 1, b) \in Seq(1..n)
         /\ Len(SubSeq(p, a + 1, b)) = b - a
         /\ \A i \in 1..(b - a) : SubSeq(p, a + 1, b)[i] = p[a + i]
OBVIOUS

\* The errors of a segment are as many as the places of the order it is cut from.
LEMMA SegmentErrors ==
  ASSUME NEW n, NEW p, IsOrder(p, n), NEW a, NEW b, Within(a, b, n),
         NEW w, NEW segment, IsSegment(segment, p, a, b)
  PROVE  Cardinality(ErrorsOf(w, segment)) = Cardinality(WrongPlaces(w, p, a, b))
<1> DEFINE E == ErrorsOf(w, segment)
           W == WrongPlaces(w, p, a, b)
           f == [k \in W |-> k - a]
<1>1. Len(segment) = b - a /\ \A i \in 1..(b - a) : segment[i] = p[a + i]
  BY DEF IsOrder, Within, IsSegment
<1>0. a \in Nat /\ b \in Nat /\ a <= b
  BY DEF IsOrder, Within
<1>2. W = { k \in a+1..b : p[k] \in w }
  BY DEF WrongPlaces
<1>3. E = { i \in 1..(b - a) : p[a + i] \in w }
  <2>1. E = { i \in 1..Len(segment) : segment[i] \in w }
    BY DEF ErrorsOf
  <2>2. \A i \in 1..(b - a) : segment[i] \in w <=> p[a + i] \in w
    BY <1>1
  <2>3. QED
    BY <2>1, <2>2, <1>1
<1>4. f \in [W -> E]
  BY <1>0, <1>2, <1>3
<1>5. \A x, y \in W : f[x] = f[y] => x = y
  BY <1>0, <1>2
<1>6. \A i \in E : \E k \in W : f[k] = i
  <2>1. TAKE i \in E
  <2>2. a + i \in a+1..b /\ p[a + i] \in w
    BY <1>0, <1>3
  <2>5. a + i \in W
    BY <2>2, <1>2
  <2>3. f[a + i] = i
    BY <2>5, <1>0, <1>3
  <2>4. QED
    BY <2>5, <2>3
<1>7. f \in Bijection(W, E)
  BY <1>4, <1>5, <1>6, Zenon DEF Bijection, Injection, Surjection, IsInjective
<1>8. ExistsBijection(W, E)
  BY <1>7 DEF ExistsBijection
<1>9. IsFiniteSet(W)
  BY <1>0, PlacesFinite
<1>10. QED
  BY <1>8, <1>9, FS_Bijection

\* The places of a segment are those of its two parts.
LEMMA PlacesSplit ==
  ASSUME NEW w, NEW p, NEW a \in Nat, NEW m \in Nat, NEW b \in Nat, a <= m, m <= b
  PROVE  Cardinality(WrongPlaces(w, p, a, b))
           = Cardinality(WrongPlaces(w, p, a, m)) + Cardinality(WrongPlaces(w, p, m, b))
<1> DEFINE L == WrongPlaces(w, p, a, m)
           R == WrongPlaces(w, p, m, b)
<1>1. WrongPlaces(w, p, a, b) = L \cup R
  BY DEF WrongPlaces
<1>2. L \cap R = {}
  BY DEF WrongPlaces
<1>3. IsFiniteSet(L) /\ IsFiniteSet(R)
  BY PlacesFinite
<1>4. Cardinality(L) \in Nat /\ Cardinality(R) \in Nat
  BY PlacesFinite
<1>5. Cardinality(L \cup R) = Cardinality(L) + Cardinality(R) - Cardinality(L \cap R)
  BY <1>3, FS_Union
<1>6. Cardinality(L \cap R) = 0
  BY <1>2, FS_EmptySet
<1>7. QED
  BY <1>1, <1>4, <1>5, <1>6

\* A position set right leaves the intervals its place is not in as they are.
LEMMA PlaceElsewhere ==
  ASSUME NEW w, NEW n, NEW p, NEW a, NEW b, NEW k, Placed(p, n, a, b, k),
         ~Lies(k, a, b) \/ p[k] \notin w
  PROVE  WrongPlaces(w \ {p[k]}, p, a, b) = WrongPlaces(w, p, a, b)
<1>1. /\ n \in Nat /\ a \in 0..n /\ b \in 0..n /\ k \in 1..n
      /\ \A i, j \in 1..n : p[i] = p[j] => i = j
  BY DEF Placed, IsPermutation, IsOrder
<1>2. WrongPlaces(w \ {p[k]}, p, a, b) = WrongPlaces(w, p, a, b) \ {k}
  BY <1>1 DEF WrongPlaces
<1>3. k \notin WrongPlaces(w, p, a, b)
  BY <1>1 DEF WrongPlaces, Lies
<1>4. QED
  BY <1>2, <1>3

\* In the others there is one place less.
LEMMA PlaceRighted ==
  ASSUME NEW w, NEW n, NEW p, NEW a, NEW b, NEW k, Placed(p, n, a, b, k),
         Lies(k, a, b), p[k] \in w
  PROVE  Cardinality(WrongPlaces(w \ {p[k]}, p, a, b)) = Cardinality(WrongPlaces(w, p, a, b)) - 1
<1>1. /\ n \in Nat /\ a \in 0..n /\ b \in 0..n /\ k \in 1..n
      /\ \A i, j \in 1..n : p[i] = p[j] => i = j
  BY DEF Placed, IsPermutation, IsOrder
<1>2. WrongPlaces(w \ {p[k]}, p, a, b) = WrongPlaces(w, p, a, b) \ {k}
  BY <1>1 DEF WrongPlaces
<1>3. k \in WrongPlaces(w, p, a, b)
  BY <1>1 DEF WrongPlaces, Lies
<1>4. IsFiniteSet(WrongPlaces(w, p, a, b))
  BY <1>1, PlacesFinite
<1>5. Cardinality(WrongPlaces(w, p, a, b) \ {k}) = Cardinality(WrongPlaces(w, p, a, b)) - 1
  BY <1>3, <1>4, FS_RemoveElement
<1>6. QED
  BY <1>2, <1>5

\* The two parts of a segment.
LEMMA SegmentParts ==
  ASSUME NEW n \in Nat, NEW p \in Seq(1..n), Len(p) = n,
         NEW a \in 0..n, NEW b \in 0..n, a < b, NEW k \in 0..(b - a)
  PROVE  /\ SubSeq(SubSeq(p, a + 1, b), 1, k) = SubSeq(p, a + 1, a + k)
         /\ SubSeq(SubSeq(p, a + 1, b), k + 1, b - a) = SubSeq(p, a + k + 1, b)
<1> DEFINE s == SubSeq(p, a + 1, b)
<1>1. s \in Seq(1..n) /\ Len(s) = b - a /\ \A i \in 1..(b - a) : s[i] = p[a + i]
  BY SegmentAt
<1> HIDE DEF s
<1>2. SubSeq(s, 1, k) = SubSeq(p, a + 1, a + k)
  <2>1. SubSeq(s, 1, k) = [i \in 1..k |-> s[i]]
    BY <1>1
  <2>2. SubSeq(p, a + 1, a + k) = [i \in 1..k |-> p[a + i]]
    OBVIOUS
  <2>3. QED
    BY <2>1, <2>2, <1>1
<1>3. SubSeq(s, k + 1, b - a) = SubSeq(p, a + k + 1, b)
  <2>1. SubSeq(s, k + 1, b - a) = [i \in 1..(b - a - k) |-> s[k + i]]
    BY <1>1
  <2>2. SubSeq(p, a + k + 1, b) = [i \in 1..(b - a - k) |-> p[a + k + i]]
    OBVIOUS
  <2>3. \A i \in 1..(b - a - k) : s[k + i] = p[a + k + i]
    <3>1. TAKE i \in 1..(b - a - k)
    <3>2. k + i \in 1..(b - a) /\ a + (k + i) = a + k + i
      OBVIOUS
    <3>3. QED
      BY <3>2, <1>1
  <2>4. QED
    BY <2>1, <2>2, <2>3
<1>4. QED
  BY <1>2, <1>3 DEF s

LEMMA BlockLengthType ==
  ASSUME block0 \in Nat \ {0}, pass \in Nat
  PROVE  BlockLength \in Nat \ {0}
<1>1. CASE pass = 0
  BY <1>1 DEF BlockLength
<1>2. CASE pass # 0
  <2>1. PICK e \in 1..6 : e = IF pass < 6 THEN pass ELSE 6
    BY <1>2
  <2>2. <<2, 4, 8, 16, 32, 64>>[e] \in Nat \ {0}
    BY <2>1
  <2>3. PICK d \in Nat \ {0} : d = <<2, 4, 8, 16, 32, 64>>[e]
    BY <2>2
  <2>4. BlockLength = block0 * d
    BY <1>2, <2>1, <2>3 DEF BlockLength
  <2>5. block0 * d \in Nat \ {0}
    BY <2>3
  <2>6. QED
    BY <2>4, <2>5
<1>3. QED
  BY <1>1, <1>2

\* The block that begins after `from`, its length and its errors.
LEMMA BlockIs ==
  ASSUME KeyTypeOK, phase = "passes", NEW from \in 0..sifted
  PROVE  /\ EndOf(from) \in 0..sifted /\ from <= EndOf(from)
         /\ BlockAt(from) = SubSeq(perm, from + 1, EndOf(from))
         /\ Len(BlockAt(from)) = EndOf(from) - from
         /\ Cardinality(Errors(BlockAt(from))) = Cardinality(WrongPlaces(wrong, perm, from, EndOf(from)))
<1>1. BlockLength \in Nat \ {0}
  BY BlockLengthType DEF KeyTypeOK
<1>2. sifted \in Nat /\ perm \in Seq(1..sifted) /\ Len(perm) = sifted
  BY DEF KeyTypeOK, IsPermutation, IsOrder
<1>3. EndOf(from) \in 0..sifted /\ from <= EndOf(from)
  BY <1>1, <1>2 DEF EndOf
<1>4. BlockAt(from) = SubSeq(perm, from + 1, EndOf(from))
  BY DEF BlockAt, EndOf
<1>5. Len(BlockAt(from)) = EndOf(from) - from
  BY <1>2, <1>3, <1>4, SegmentAt
<1>6. Cardinality(Errors(BlockAt(from))) = Cardinality(WrongPlaces(wrong, perm, from, EndOf(from)))
  <2>1. PICK e \in 0..sifted : e = EndOf(from)
    BY <1>3
  <2>2. PICK block : block = BlockAt(from)
    OBVIOUS
  <2>3. IsOrder(perm, sifted) /\ Within(from, e, sifted) /\ IsSegment(block, perm, from, e)
    BY <1>2, <1>3, <1>4, <2>1, <2>2 DEF IsOrder, Within, IsSegment
  <2>4. Cardinality(ErrorsOf(wrong, block)) = Cardinality(WrongPlaces(wrong, perm, from, e))
    BY <2>3, SegmentErrors
  <2>5. QED
    BY <2>1, <2>2, <2>4 DEF Errors, ErrorsOf
<1>7. QED
  BY <1>3, <1>4, <1>5, <1>6

LEMMA SettledMeans ==
  ASSUME KeyInv
  PROVE  BlocksSettled
<1>1. SUFFICES ASSUME phase = "passes", stack = <<>>,
                      NEW from \in 0..sifted, from < chunk, from % BlockLength = 0
               PROVE  IF HammingPass THEN Len(BlockAt(from)) = 7 => Cardinality(Errors(BlockAt(from))) # 1
                      ELSE Len(BlockAt(from)) >= 2 => Cardinality(Errors(BlockAt(from))) % 2 = 0
  BY DEF BlocksSettled
<1>2. Settled(from)
  BY <1>1 DEF KeyInv, PassInv, SettledBefore, Bisecting
<1>3. /\ EndOf(from) \in 0..sifted /\ from <= EndOf(from)
      /\ Len(BlockAt(from)) = EndOf(from) - from
      /\ Cardinality(Errors(BlockAt(from))) = Cardinality(WrongPlaces(wrong, perm, from, EndOf(from)))
  BY <1>1, BlockIs DEF KeyInv
<1>4. sifted \in Nat
  BY DEF KeyInv, KeyTypeOK
<1>5. Cardinality(WrongPlaces(wrong, perm, from, EndOf(from))) \in Nat
  BY <1>3, <1>4, PlacesFinite
<1>6. CASE HammingPass
  BY <1>2, <1>3, <1>4, <1>6 DEF Settled
<1>7. CASE ~HammingPass
  BY <1>2, <1>3, <1>4, <1>5, <1>7 DEF Settled, Odd
<1>8. QED
  BY <1>6, <1>7

-----------------------------------------------------------------------------
LEMMA SegmentOdd ==
  ASSUME KeyTypeOK, phase = "passes", NEW a \in 0..sifted, NEW b \in 0..sifted, a <= b
  PROVE  OddParity(Segment(a, b)) <=> Odd(wrong, perm, a, b)
<1>1. PICK block : block = Segment(a, b)
  OBVIOUS
<1>2. IsOrder(perm, sifted) /\ Within(a, b, sifted) /\ IsSegment(block, perm, a, b)
  BY <1>1 DEF KeyTypeOK, IsPermutation, Within, IsSegment, Segment
<1>3. Cardinality(ErrorsOf(wrong, block)) = Cardinality(WrongPlaces(wrong, perm, a, b))
  BY <1>2, SegmentErrors
<1>4. QED
  BY <1>1, <1>3 DEF OddParity, Errors, ErrorsOf, Odd

\* A single place is odd when its position is wrong.
LEMMA SinglePlace ==
  ASSUME NEW w, NEW p, NEW a \in Nat
  PROVE  Odd(w, p, a, a + 1) <=> p[a + 1] \in w
<1>1. a+1..a+1 = {a + 1}
  OBVIOUS
<1>2. CASE p[a + 1] \in w
  <2>1. WrongPlaces(w, p, a, a + 1) = {a + 1}
    BY <1>1, <1>2 DEF WrongPlaces
  <2>2. Cardinality({a + 1}) = 1
    BY FS_Singleton
  <2>3. Cardinality(WrongPlaces(w, p, a, a + 1)) = 1
    BY <2>1, <2>2, Zenon
  <2>4. QED
    BY <1>2, <2>3 DEF Odd
<1>3. CASE p[a + 1] \notin w
  <2>1. WrongPlaces(w, p, a, a + 1) = {}
    BY <1>1, <1>3 DEF WrongPlaces
  <2>2. QED
    BY <1>3, <2>1, FS_EmptySet DEF Odd
<1>4. QED
  BY <1>2, <1>3

\* A segment is odd when exactly one of its parts is.
LEMMA OddSplit ==
  ASSUME NEW w, NEW p, NEW a \in Nat, NEW m \in Nat, NEW b \in Nat, a <= m, m <= b
  PROVE  Odd(w, p, a, b) <=> ~(Odd(w, p, a, m) <=> Odd(w, p, m, b))
<1>1. PICK x \in Nat : x = Cardinality(WrongPlaces(w, p, a, m))
  BY PlacesFinite
<1>2. PICK y \in Nat : y = Cardinality(WrongPlaces(w, p, m, b))
  BY PlacesFinite
<1>3. Cardinality(WrongPlaces(w, p, a, b)) = x + y
  BY <1>1, <1>2, PlacesSplit
<1>4. (x + y) % 2 = 1 <=> ~(x % 2 = 1 <=> y % 2 = 1)
  BY <1>1, <1>2
<1>5. QED
  BY <1>1, <1>2, <1>3, <1>4 DEF Odd

\* Setting a wrong position right changes the parity of the intervals it lies in.
LEMMA OddRighted ==
  ASSUME NEW w, NEW n, NEW p, NEW a, NEW b, NEW k, Placed(p, n, a, b, k), Lies(k, a, b), p[k] \in w
  PROVE  Odd(w \ {p[k]}, p, a, b) <=> ~Odd(w, p, a, b)
<1>1. Cardinality(WrongPlaces(w \ {p[k]}, p, a, b)) = Cardinality(WrongPlaces(w, p, a, b)) - 1
  BY PlaceRighted
<1>2. PICK x \in Nat : x = Cardinality(WrongPlaces(w, p, a, b))
  BY PlacesFinite DEF Placed, IsPermutation, IsOrder
<1>3. (x - 1) % 2 = 1 <=> ~(x % 2 = 1)
  BY <1>2
<1>4. QED
  BY <1>1, <1>2, <1>3 DEF Odd

-----------------------------------------------------------------------------
\* What a block does leaves the pass as it is.
LEMMA PassFrame ==
  ASSUME UNCHANGED <<sifted, block0, pass, perm>>
  PROVE  /\ BlockLength' = BlockLength /\ (HammingPass' <=> HammingPass)
         /\ \A from : EndOf(from)' = EndOf(from)
         /\ \A a, b : Segment(a, b)' = Segment(a, b)
         /\ \A from, a, b : Inside(from, a, b)' <=> Inside(from, a, b)
<1>1. BlockLength' = BlockLength
  BY DEF BlockLength
<1>2. \A from : EndOf(from)' = EndOf(from)
  BY <1>1 DEF EndOf
<1>3. QED
  BY <1>1, <1>2 DEF HammingPass, Segment, Inside

\* A position set right in a later block leaves the blocks before it settled.
LEMMA SettledKept ==
  ASSUME KeyTypeOK, phase = "passes", UNCHANGED <<sifted, block0, pass, perm>>,
         NEW end \in 0..sifted, end % BlockLength = 0, SettledBefore(end),
         \/ UNCHANGED wrong
         \/ \E k \in 1..sifted : end < k /\ wrong' = wrong \ {perm[k]}
  PROVE  SettledBefore(end)'
<1>1. SUFFICES ASSUME NEW from \in 0..sifted, from < end, from % BlockLength = 0
               PROVE  Settled(from)'
  BY PassFrame DEF SettledBefore
<1>2. Settled(from)
  BY <1>1 DEF SettledBefore
<1>3. BlockLength \in Nat \ {0} /\ sifted \in Nat
  BY BlockLengthType DEF KeyTypeOK
<1>4. EndOf(from) \in 0..sifted /\ EndOf(from) <= end
  <2>1. PICK n \in Nat \ {0} : n = BlockLength
    BY <1>3
  <2>2. from % n = 0 /\ end % n = 0 /\ from \in Nat /\ end \in Nat
    BY <1>1, <1>3, <2>1
  <2>3. from + n <= end
    BY <1>1, <2>2, MultiplesApart
  <2>4. QED
    BY <1>3, <2>1, <2>3 DEF EndOf
<1>5. WrongPlaces(wrong', perm, from, EndOf(from)) = WrongPlaces(wrong, perm, from, EndOf(from))
  <2>1. CASE UNCHANGED wrong
    BY <2>1
  <2>2. ASSUME NEW k \in 1..sifted, end < k, wrong' = wrong \ {perm[k]}
        PROVE  WrongPlaces(wrong', perm, from, EndOf(from)) = WrongPlaces(wrong, perm, from, EndOf(from))
    <3>1. IsPermutation(perm, sifted)
      BY DEF KeyTypeOK
    <3>2. PICK e \in 0..sifted : e = EndOf(from)
      BY <1>4
    <3>3. ~Lies(k, from, e) /\ Placed(perm, sifted, from, e, k)
      BY <1>3, <1>4, <2>2, <3>1, <3>2 DEF Lies, Placed
    <3>4. WrongPlaces(wrong \ {perm[k]}, perm, from, e) = WrongPlaces(wrong, perm, from, e)
      BY <3>3, PlaceElsewhere
    <3>5. QED
      BY <2>2, <3>2, <3>4
  <2>3. QED
    BY <2>1, <2>2
<1>6. EndOf(from)' = EndOf(from) /\ (HammingPass' <=> HammingPass) /\ perm' = perm
  BY PassFrame
<1>7. QED
  BY <1>2, <1>5, <1>6 DEF Settled, Odd

\* When the block after `from` is settled too, so are all before its end.
LEMMA SettledNext ==
  ASSUME KeyTypeOK, phase = "passes", UNCHANGED <<sifted, block0, pass, perm>>,
         NEW from \in 0..sifted, from % BlockLength = 0,
         SettledBefore(from)', Settled(from)', NEW end, end <= from + BlockLength, end \in Nat
  PROVE  SettledBefore(end)'
<1>1. BlockLength \in Nat \ {0} /\ sifted \in Nat
  BY BlockLengthType DEF KeyTypeOK
<1>2. BlockLength' = BlockLength /\ sifted' = sifted
  BY PassFrame
<1>3. SUFFICES ASSUME NEW k \in 0..sifted, k < end, k % BlockLength = 0
               PROVE  Settled(k)'
  BY <1>2 DEF SettledBefore
<1>4. CASE k < from
  BY <1>2, <1>3, <1>4 DEF SettledBefore
<1>5. CASE k = from
  BY <1>5
<1>6. CASE k > from
  <2>1. PICK n \in Nat \ {0} : n = BlockLength
    BY <1>1
  <2>2. from % n = 0 /\ k % n = 0 /\ from \in Nat /\ k \in Nat
    BY <1>1, <1>3, <2>1
  <2>3. from + n <= k
    BY <1>6, <2>2, MultiplesApart
  <2>4. QED
    BY <1>1, <1>3, <2>1, <2>3
<1>7. QED
  BY <1>1, <1>4, <1>5, <1>6

-----------------------------------------------------------------------------
\* The syndrome of a single error is its place.
LEMMA SyndromeNames ==
  ASSUME NEW block, NEW e \in 1..7, Errors(block) = {e}
  PROVE  Syndrome(block) = e
<1> DEFINE parity(places) == Cardinality(places \cap Errors(block)) % 2
<1>1. ASSUME NEW places PROVE parity(places) = IF e \in places THEN 1 ELSE 0
  <2>1. CASE e \in places
    <3>1. places \cap Errors(block) = {e}
      BY <2>1
    <3>2. Cardinality({e}) = 1
      BY FS_Singleton
    <3>3. QED
      BY <2>1, <3>1, <3>2
  <2>2. CASE e \notin places
    <3>1. places \cap Errors(block) = {}
      BY <2>2
    <3>2. QED
      BY <2>2, <3>1, FS_EmptySet
  <2>3. QED
    BY <2>1, <2>2
<1>2. Syndrome(block) = parity({1, 3, 5, 7}) + 2 * parity({2, 3, 6, 7}) + 4 * parity({4, 5, 6, 7})
  BY DEF Syndrome
<1> HIDE DEF parity
<1>3. QED
  BY <1>1, <1>2

\* A Hamming block leaves no single error.
LEMMA HammingSettles ==
  ASSUME KeyInv, HammingBlock
  PROVE  KeyInv'
<1>1. /\ KeyTypeOK /\ sifted \in Nat /\ chunk \in Nat /\ wrong \in SUBSET (1..sifted)
      /\ phase = "passes"
      /\ IsPermutation(perm, sifted) /\ perm \in Seq(1..sifted) /\ Len(perm) = sifted
  BY DEF KeyInv, KeyTypeOK, IsPermutation, IsOrder, HammingBlock
<1>2. /\ stack = <<>> /\ chunk < sifted /\ HammingPass
      /\ UNCHANGED <<sifted, block0, pass, perm>> /\ UNCHANGED <<phase, stack>>
  BY DEF HammingBlock
<1>3. BlockLength = 7
  BY <1>2 DEF HammingPass, BlockLength
<1>4. /\ BlockLength' = BlockLength /\ (HammingPass' <=> HammingPass)
      /\ \A from : EndOf(from)' = EndOf(from)
  BY <1>2, PassFrame
<1>5. PICK from \in 0..sifted : from = chunk
  BY <1>1, <1>2
<1>6. from % BlockLength = 0 /\ SettledBefore(from)
  BY <1>1, <1>2, <1>5 DEF KeyInv, PassInv, Bisecting
<1>7. CASE chunk + 7 > sifted
  <2>1. chunk' = sifted /\ UNCHANGED wrong
    BY <1>7 DEF HammingBlock
  <2>2. EndOf(from) = sifted
    BY <1>1, <1>3, <1>5, <1>7 DEF EndOf
  <2>3. Settled(from)'
    BY <1>1, <1>2, <1>4, <1>5, <1>7, <2>2 DEF Settled
  <2>4. SettledBefore(from)'
    BY <1>1, <1>2, <1>6, <2>1, SettledKept
  <2>5. PICK end \in Nat : end = sifted
    BY <1>1
  <2>6. end <= from + BlockLength
    BY <1>3, <1>5, <1>7, <2>5
  <2>7. SettledBefore(end)'
    BY <1>1, <1>2, <1>6, <2>3, <2>4, <2>5, <2>6, SettledNext
  <2>8. SettledBefore(chunk)'
    BY <1>1, <1>2, <2>1, <2>5, <2>7 DEF SettledBefore
  <2>9. KeyTypeOK'
    BY <1>1, <1>2, <2>1 DEF KeyTypeOK
  <2>10. PassInv'
    BY <1>1, <1>2, <2>1, <2>8 DEF PassInv
  <2>11. QED
    BY <2>9, <2>10 DEF KeyInv
<1>8. CASE chunk + 7 <= sifted
  <2>block. PICK block : block = BlockAt(from)
    OBVIOUS
  <2>syndrome. PICK s : s = Syndrome(block)
    OBVIOUS
  <2>flip. IF s # 0 /\ Errors(block) = {s} THEN wrong' = wrong \ {block[s]} ELSE UNCHANGED wrong
    <3>1. ~(chunk + 7 > sifted)
      BY <1>1, <1>8
    <3>2. QED
      BY <1>5, <2>block, <2>syndrome, <3>1 DEF HammingBlock
  <2>1. chunk' = chunk + 7
    BY <1>1, <1>8 DEF HammingBlock
  <2>2. EndOf(from) = from + 7 /\ from + 7 \in 0..sifted
    BY <1>1, <1>3, <1>5, <1>8 DEF EndOf
  <2>3. /\ block = SubSeq(perm, from + 1, from + 7) /\ Len(block) = 7
        /\ Cardinality(Errors(block)) = Cardinality(WrongPlaces(wrong, perm, from, from + 7))
    <3>1. /\ BlockAt(from) = SubSeq(perm, from + 1, EndOf(from))
          /\ Len(BlockAt(from)) = EndOf(from) - from
          /\ Cardinality(Errors(BlockAt(from)))
               = Cardinality(WrongPlaces(wrong, perm, from, EndOf(from)))
      BY <1>1, BlockIs
    <3>2. QED
      BY <1>1, <2>block, <2>2, <3>1
  <2>4. \A i \in 1..7 : block[i] = perm[from + i]
    BY <1>1, <2>2, <2>3, SegmentAt
  <2>5. Errors(block) \subseteq 1..7
    BY <2>3 DEF Errors
  <2>6. ASSUME Errors(block) = {s}
        PROVE  Settled(from)' /\ SettledBefore(from)' /\ wrong' \in SUBSET (1..sifted)
    <3>1. s \in 1..7 /\ block[s] \in wrong
      BY <2>5, <2>6 DEF Errors
    <3>2. PICK k \in 1..sifted : k = from + s
      BY <1>1, <2>2, <3>1
    <3>3. block[s] = perm[k]
      BY <2>4, <3>1, <3>2
    <3>4. wrong' = wrong \ {perm[k]}
      BY <2>flip, <2>6, <3>1, <3>3
    <3>5. PICK e \in 0..sifted : e = from + 7
      BY <2>2
    <3>6. Placed(perm, sifted, from, e, k) /\ Lies(k, from, e) /\ perm[k] \in wrong
      BY <1>1, <3>1, <3>2, <3>3, <3>5 DEF Placed, Lies
    <3>7. Cardinality(WrongPlaces(wrong \ {perm[k]}, perm, from, e))
            = Cardinality(WrongPlaces(wrong, perm, from, e)) - 1
      BY <3>6, PlaceRighted
    <3>8. Cardinality({s}) = 1
      BY FS_Singleton
    <3>9. Cardinality(WrongPlaces(wrong', perm, from, e)) = 0
      BY <2>3, <2>6, <3>4, <3>5, <3>7, <3>8
    <3>10. Settled(from)'
      BY <1>2, <1>4, <2>2, <3>5, <3>9 DEF Settled
    <3>11. from < k
      BY <3>1, <3>2
    <3>12. SettledBefore(from)'
      BY <1>1, <1>2, <1>6, <3>4, <3>11, SettledKept
    <3>13. wrong' \in SUBSET (1..sifted)
      BY <1>1, <3>4
    <3>14. QED
      BY <3>10, <3>12, <3>13
  <2>7. ASSUME Errors(block) # {s}
        PROVE  Settled(from)' /\ SettledBefore(from)' /\ wrong' \in SUBSET (1..sifted)
    <3>1. UNCHANGED wrong
      BY <2>flip, <2>7
    <3>2. Cardinality(Errors(block)) # 1
      <4>1. SUFFICES ASSUME Cardinality(Errors(block)) = 1 PROVE FALSE
        OBVIOUS
      <4>2. IsFiniteSet(Errors(block))
        <5>1. \A n \in Nat : IsFiniteSet(1..n)
          BY FS_Interval
        <5>2. IsFiniteSet(1..7)
          BY <5>1
        <5>3. QED
          BY <2>5, <5>2, FS_Subset
      <4>3. PICK e : Errors(block) = {e}
        BY <4>1, <4>2, FS_Singleton
      <4>4. e \in 1..7
        BY <2>5, <4>3
      <4>5. s = e
        BY <2>syndrome, <4>3, <4>4, SyndromeNames
      <4>6. QED
        BY <2>7, <4>3, <4>5
    <3>3. Settled(from)'
      BY <1>2, <1>4, <2>2, <2>3, <3>1, <3>2 DEF Settled
    <3>4. SettledBefore(from)'
      BY <1>1, <1>2, <1>6, <3>1, SettledKept
    <3>5. QED
      BY <1>1, <3>1, <3>3, <3>4
  <2>8. Settled(from)' /\ SettledBefore(from)' /\ wrong' \in SUBSET (1..sifted)
    BY <2>6, <2>7
  <2>9. PICK end \in Nat : end = from + 7
    BY <2>2, <1>1
  <2>10. SettledBefore(end)'
    <3>1. end <= from + BlockLength
      BY <1>3, <2>9
    <3>2. QED
      BY <1>1, <1>2, <1>6, <2>8, <3>1, SettledNext
  <2>11. SettledBefore(chunk)'
    BY <1>5, <2>1, <2>9, <2>10 DEF SettledBefore
  <2>12. chunk' \in Nat /\ chunk' % 7 = 0
    BY <1>1, <1>3, <1>5, <1>6, <2>1
  <2>13. KeyTypeOK'
    BY <1>1, <1>2, <2>8, <2>12 DEF KeyTypeOK
  <2>14. PassInv'
    BY <1>1, <1>2, <1>3, <1>4, <2>11, <2>12 DEF PassInv
  <2>15. QED
    BY <2>13, <2>14 DEF KeyInv
<1>9. QED
  BY <1>1, <1>7, <1>8

\* A block of a Cascade pass begins: one of a single position has nothing to bisect.
LEMMA OpenSettles ==
  ASSUME KeyInv, OpenBlock
  PROVE  KeyInv'
<1>1. /\ KeyTypeOK /\ sifted \in Nat /\ chunk \in Nat /\ phase = "passes"
      /\ BlockLength \in Nat \ {0}
  BY BlockLengthType DEF KeyInv, KeyTypeOK, OpenBlock
<1>2. /\ stack = <<>> /\ chunk < sifted /\ ~HammingPass /\ chunk' = chunk + BlockLength
      /\ UNCHANGED <<sifted, block0, pass, perm>> /\ UNCHANGED <<phase, wrong>>
  BY DEF OpenBlock
<1>3. /\ BlockLength' = BlockLength /\ (HammingPass' <=> HammingPass)
      /\ \A from : EndOf(from)' = EndOf(from)
      /\ \A a, b : Segment(a, b)' = Segment(a, b)
      /\ \A from, a, b : Inside(from, a, b)' <=> Inside(from, a, b)
  BY <1>2, PassFrame
<1>4. PICK from \in 0..sifted : from = chunk
  BY <1>1, <1>2
<1>5. from % BlockLength = 0 /\ SettledBefore(from)
  BY <1>1, <1>2, <1>4 DEF KeyInv, PassInv, Bisecting
<1>6. SettledBefore(from)'
  BY <1>1, <1>2, <1>5, SettledKept
<1>7. KeyTypeOK'
  BY <1>1, <1>2 DEF KeyTypeOK
<1>8. /\ EndOf(from) \in 0..sifted /\ from < EndOf(from)
      /\ BlockAt(from) = Segment(from, EndOf(from)) /\ Len(BlockAt(from)) = EndOf(from) - from
  <2>1. /\ EndOf(from) \in 0..sifted
        /\ BlockAt(from) = SubSeq(perm, from + 1, EndOf(from))
        /\ Len(BlockAt(from)) = EndOf(from) - from
    BY <1>1, BlockIs
  <2>2. from < EndOf(from)
    BY <1>1, <1>2, <1>4 DEF EndOf
  <2>3. QED
    BY <2>1, <2>2 DEF Segment
<1>9. CASE Len(BlockAt(from)) < 2
  <2>1. stack' = <<>>
    BY <1>4, <1>9 DEF OpenBlock
  <2>2. Settled(from)'
    BY <1>1, <1>2, <1>3, <1>8, <1>9 DEF Settled
  <2>3. PICK end \in Nat : end = from + BlockLength
    BY <1>1
  <2>4. end <= from + BlockLength
    BY <1>1, <2>3
  <2>5. SettledBefore(end)'
    BY <1>1, <1>2, <1>5, <1>6, <2>2, <2>4, SettledNext
  <2>6. SettledBefore(chunk)'
    BY <1>2, <1>4, <2>3, <2>5 DEF SettledBefore
  <2>7. chunk' % BlockLength = 0
    <3>1. PICK n \in Nat \ {0} : n = BlockLength
      BY <1>1
    <3>2. from \in Nat /\ from % n = 0
      BY <1>1, <1>5, <3>1
    <3>3. (from + n) % n = 0
      BY <3>2, NextMultiple
    <3>4. QED
      BY <1>2, <1>4, <3>1, <3>3
  <2>8. PassInv'
    BY <1>3, <2>1, <2>6, <2>7 DEF PassInv
  <2>9. QED
    BY <1>7, <2>8 DEF KeyInv
<1>10. CASE ~(Len(BlockAt(from)) < 2)
  <2>1. PICK e \in 0..sifted : e = EndOf(from)
    BY <1>8
  <2>2. stack' = <<Segment(from, e)>>
    BY <1>4, <1>8, <1>10, <2>1 DEF OpenBlock
  <2>3. Inside(from, from, e)
    BY <1>1, <1>8, <2>1 DEF Inside
  <2>4. Bisecting(from)'
    <3>1. EndOf(from)' = e /\ Segment(from, e)' = Segment(from, e) /\ Inside(from, from, e)'
      BY <1>3, <2>1, <2>3
    <3>2. QED
      BY <1>2, <1>3, <2>2, <3>1 DEF Bisecting
  <2>5. PassInv'
    BY <1>1, <1>2, <1>3, <1>4, <1>5, <1>6, <2>4 DEF PassInv
  <2>6. QED
    BY <1>7, <2>5 DEF KeyInv
<1>11. QED
  BY <1>9, <1>10

-----------------------------------------------------------------------------
LEMMA LastFront ==
  ASSUME NEW s, NEW t
  PROVE  /\ Last(<<s>>) = s /\ Front(<<s>>) = <<>>
         /\ Last(<<s, t>>) = t /\ Front(<<s, t>>) = <<s>>
<1>1. Last(<<s>>) = s
  BY DEF Last
<1>2. Front(<<s>>) = <<>>
  <2>1. <<s>> \in Seq({s}) /\ Len(<<s>>) = 1
    OBVIOUS
  <2>2. SubSeq(<<s>>, 1, 0) = <<>>
    BY <2>1
  <2>3. QED
    BY <2>1, <2>2 DEF Front
<1>3. Last(<<s, t>>) = t
  BY DEF Last
<1>4. Front(<<s, t>>) = <<s>>
  <2>1. <<s, t>> \in Seq({s, t}) /\ Len(<<s, t>>) = 2
    OBVIOUS
  <2>2. SubSeq(<<s, t>>, 1, 1) = [i \in 1..1 |-> <<s, t>>[i]]
    BY <2>1
  <2>3. <<s>> = [i \in 1..1 |-> <<s>>[i]]
    OBVIOUS
  <2>4. \A i \in 1..1 : <<s, t>>[i] = <<s>>[i]
    OBVIOUS
  <2>5. SubSeq(<<s, t>>, 1, 1) = <<s>>
    BY <2>2, <2>3, <2>4
  <2>6. QED
    BY <2>1, <2>5 DEF Front
<1>5. QED
  BY <1>1, <1>2, <1>3, <1>4

\* The two halves of a segment.
HalvedAt(s, a, m, b) ==
  /\ a <= m /\ m < b /\ (b - a # 1 => a < m)
  /\ SubSeq(s, 1, Len(s) \div 2) = Segment(a, m)
  /\ SubSeq(s, Len(s) \div 2 + 1, Len(s)) = Segment(m, b)

LEMMA Halves ==
  ASSUME KeyTypeOK, phase = "passes", NEW a \in 0..sifted, NEW b \in 0..sifted, a < b,
         NEW s, s = Segment(a, b)
  PROVE  /\ Len(s) = b - a /\ s[1] = perm[a + 1]
         /\ \E m \in 0..sifted : HalvedAt(s, a, m, b)
<1>1. sifted \in Nat /\ perm \in Seq(1..sifted) /\ Len(perm) = sifted
  BY DEF KeyTypeOK, IsPermutation, IsOrder
<1>2. PICK k \in 0..(b - a) : k = (b - a) \div 2
  BY <1>1
<1>3. PICK m \in 0..sifted : m = a + k /\ a <= m /\ m < b /\ (b - a # 1 => a < m)
  BY <1>1, <1>2
<1>4. Len(SubSeq(perm, a + 1, b)) = b - a /\ \A i \in 1..(b - a) : SubSeq(perm, a + 1, b)[i] = perm[a + i]
  BY <1>1, SegmentAt
<1>5. SubSeq(perm, a + 1, b)[1] = perm[a + 1]
  BY <1>1, <1>4
<1>6. /\ SubSeq(SubSeq(perm, a + 1, b), 1, k) = SubSeq(perm, a + 1, a + k)
      /\ SubSeq(SubSeq(perm, a + 1, b), k + 1, b - a) = SubSeq(perm, a + k + 1, b)
  BY <1>1, SegmentParts
<1>7. HalvedAt(s, a, m, b)
  BY <1>2, <1>3, <1>4, <1>6 DEF Segment, HalvedAt
<1>8. QED
  BY <1>4, <1>5, <1>7 DEF Segment

\* One segment of the bisection.  A block whose last segment goes is even.
LEMMA BisectSettles ==
  ASSUME KeyInv, Bisect
  PROVE  KeyInv'
<1>1. phase = "passes"
  BY DEF Bisect, KeyInv, KeyTypeOK
<1>2. /\ KeyTypeOK /\ sifted \in Nat /\ chunk \in Nat /\ wrong \in SUBSET (1..sifted)
      /\ BlockLength \in Nat \ {0} /\ IsPermutation(perm, sifted)
  BY <1>1, BlockLengthType DEF KeyInv, KeyTypeOK
<1>3. UNCHANGED <<sifted, block0, pass, perm>> /\ UNCHANGED <<phase, chunk>> /\ stack # <<>>
  BY DEF Bisect
<1>4. PICK from \in 0..sifted :
         /\ from < sifted /\ from % BlockLength = 0 /\ chunk = from + BlockLength
         /\ SettledBefore(from) /\ Bisecting(from)
  BY <1>1, <1>3 DEF KeyInv, PassInv
<1>5. PICK e \in 0..sifted : e = EndOf(from)
  BY <1>2, BlockIs, <1>1
<1>6. /\ BlockLength' = BlockLength /\ (HammingPass' <=> HammingPass)
      /\ \A x : EndOf(x)' = EndOf(x)
      /\ \A a, b : Segment(a, b)' = Segment(a, b)
      /\ \A x, a, b : Inside(x, a, b)' <=> Inside(x, a, b)
  BY <1>3, PassFrame
<1>7. ~HammingPass
  BY <1>4 DEF Bisecting
\* It is enough that the bisection goes on, or that the block is left even.
<1>8. SUFFICES /\ UNCHANGED wrong \/ \E k \in 1..sifted : from < k /\ wrong' = wrong \ {perm[k]}
               /\ \/ stack' = <<>> /\ ~Odd(wrong', perm, from, e)
                  \/ Bisecting(from)'
  <2>1. ASSUME UNCHANGED wrong \/ \E k \in 1..sifted : from < k /\ wrong' = wrong \ {perm[k]},
               (stack' = <<>> /\ ~Odd(wrong', perm, from, e)) \/ Bisecting(from)'
        PROVE  KeyInv'
    <3>1. wrong' \in SUBSET (1..sifted)
      BY <1>2, <2>1
    <3>2. KeyTypeOK'
      BY <1>1, <1>2, <1>3, <3>1 DEF KeyTypeOK
    <3>3. SettledBefore(from)'
      BY <1>1, <1>2, <1>3, <1>4, <2>1, SettledKept
    <3>4. CASE Bisecting(from)'
      <4>1. PassInv'
        BY <1>1, <1>2, <1>3, <1>4, <1>6, <3>3, <3>4 DEF PassInv
      <4>2. QED
        BY <3>2, <4>1 DEF KeyInv
    <3>5. CASE stack' = <<>> /\ ~Odd(wrong', perm, from, e)
      <4>1. Settled(from)'
        BY <1>3, <1>5, <1>6, <1>7, <3>5 DEF Settled
      <4>2. PICK end \in Nat : end = from + BlockLength
        BY <1>2
      <4>3. end <= from + BlockLength
        BY <1>2, <4>2
      <4>4. SettledBefore(end)'
        BY <1>1, <1>2, <1>3, <1>4, <3>3, <4>1, <4>3, SettledNext
      <4>5. SettledBefore(chunk)'
        BY <1>3, <1>4, <4>2, <4>4 DEF SettledBefore
      <4>6. chunk' % BlockLength = 0
        <5>1. PICK n \in Nat \ {0} : n = BlockLength
          BY <1>2
        <5>2. from \in Nat /\ from % n = 0
          BY <1>2, <1>4, <5>1
        <5>3. (from + n) % n = 0
          BY <5>2, NextMultiple
        <5>4. QED
          BY <1>3, <1>4, <5>1, <5>3
      <4>7. PassInv'
        BY <1>6, <3>5, <4>5, <4>6 DEF PassInv
      <4>8. QED
        BY <3>2, <4>7 DEF KeyInv
    <3>6. QED
      BY <2>1, <3>4, <3>5
  <2>2. QED
    BY <2>1
<1>9. PICK a \in 0..sifted, b \in 0..sifted :
        /\ Inside(from, a, b)
        /\ Odd(wrong, perm, a, b) <=> Odd(wrong, perm, from, e)
        /\ \/ stack = <<Segment(a, b)>>
           \/ \E c, d \in 0..sifted :
                /\ Inside(from, c, d) /\ ~Odd(wrong, perm, c, d)
                /\ stack = <<Segment(a, b), Segment(c, d)>>
  BY <1>4, <1>5 DEF Bisecting
<1>10. from <= a /\ a < b /\ b <= e /\ a \in Nat /\ b \in Nat /\ sifted \in Nat
  BY <1>2, <1>5, <1>9 DEF Inside
\* Still bisecting with segments x..y, and u..v when there are two.
<1>11. ASSUME NEW x \in 0..sifted, NEW y \in 0..sifted, from <= x, x < y, y <= e,
              Odd(wrong', perm, x, y) <=> Odd(wrong', perm, from, e),
              \/ stack' = <<Segment(x, y)>>
              \/ \E u, v \in 0..sifted :
                   /\ from <= u /\ u < v /\ v <= e /\ ~Odd(wrong', perm, u, v)
                   /\ stack' = <<Segment(x, y), Segment(u, v)>>
       PROVE  Bisecting(from)'
  <2>1. Inside(from, x, y)'
    BY <1>5, <1>6, <1>11 DEF Inside
  <2>2. \A u, v \in 0..sifted : from <= u /\ u < v /\ v <= e => Inside(from, u, v)'
    BY <1>5, <1>6 DEF Inside
  <2>3. EndOf(from)' = e
    BY <1>5, <1>6
  <2>4. QED
    BY <1>3, <1>6, <1>7, <1>11, <2>1, <2>2, <2>3 DEF Bisecting
<1>12. CASE stack = <<Segment(a, b)>>
  <2>1. PICK seg : seg = Segment(a, b)
    OBVIOUS
  <2>2. Last(stack) = seg /\ Front(stack) = <<>>
    BY <1>12, <2>1, LastFront
  <2>3. Len(seg) = b - a /\ seg[1] = perm[a + 1]
    BY <1>1, <1>2, <1>10, <2>1, Halves
  <2>halves. PICK m \in 0..sifted : HalvedAt(seg, a, m, b)
    BY <1>1, <1>2, <1>10, <2>1, Halves
  <2>4. /\ a <= m /\ m < b /\ (b - a # 1 => a < m)
        /\ SubSeq(seg, 1, Len(seg) \div 2) = Segment(a, m)
        /\ SubSeq(seg, Len(seg) \div 2 + 1, Len(seg)) = Segment(m, b)
    BY <2>halves DEF HalvedAt
  <2>middle. m \in Nat
    BY <1>2
  <2>5. CASE Len(seg) = 1
    <3>1. wrong' = wrong \ {perm[a + 1]} /\ stack' = <<>>
      BY <2>2, <2>3, <2>5 DEF Bisect
    <3>2. b = a + 1 /\ a \in Nat
      <4>1. b - a = 1
        BY <2>3, <2>5, Zenon
      <4>2. QED
        BY <1>10, <4>1
    <3>3. Odd(wrong, perm, from, e) <=> perm[a + 1] \in wrong
      BY <1>9, <3>2, SinglePlace
    <3>4. PICK k \in 1..sifted : k = a + 1
      BY <1>2, <3>2
    <3>5. Placed(perm, sifted, from, e, k) /\ Lies(k, from, e) /\ from < k
      BY <1>2, <1>10, <3>2, <3>4 DEF Placed, Lies
    <3>6. ~Odd(wrong', perm, from, e)
      <4>1. CASE perm[k] \in wrong
        <5>1. Odd(wrong \ {perm[k]}, perm, from, e) <=> ~Odd(wrong, perm, from, e)
          BY <3>5, <4>1, OddRighted
        <5>2. QED
          BY <3>1, <3>3, <3>4, <4>1, <5>1
      <4>2. CASE perm[k] \notin wrong
        <5>1. wrong' = wrong
          BY <3>1, <3>4, <4>2
        <5>2. QED
          BY <3>3, <3>4, <4>2, <5>1
      <4>3. QED
        BY <4>1, <4>2
    <3>7. QED
      BY <3>1, <3>4, <3>5, <3>6
  <2>6. CASE Len(seg) # 1 /\ ~OddParity(seg)
    <3>1. UNCHANGED wrong /\ stack' = <<>>
      BY <2>2, <2>6 DEF Bisect
    <3>2. ~Odd(wrong, perm, a, b)
      BY <1>1, <1>2, <1>10, <2>1, <2>6, SegmentOdd
    <3>3. QED
      BY <1>9, <3>1, <3>2
  <2>7. CASE Len(seg) # 1 /\ OddParity(seg)
    <3>1. /\ UNCHANGED wrong
          /\ stack' = IF OddParity(Segment(a, m)) THEN <<>> \o <<Segment(a, m), Segment(m, b)>>
                      ELSE Append(<<>>, Segment(m, b))
      <4>1. PICK left : left = Segment(a, m)
        OBVIOUS
      <4>2. PICK right : right = Segment(m, b)
        OBVIOUS
      <4>3. SubSeq(seg, 1, Len(seg) \div 2) = left /\ SubSeq(seg, Len(seg) \div 2 + 1, Len(seg)) = right
        BY <2>4, <4>1, <4>2
      <4>4. UNCHANGED wrong
        BY <2>2, <2>7 DEF Bisect
      <4>5. stack' = IF OddParity(left) THEN <<>> \o <<left, right>> ELSE Append(<<>>, right)
        BY <2>2, <2>7, <4>3 DEF Bisect
      <4>6. QED
        BY <4>1, <4>2, <4>4, <4>5
    <3>2. Odd(wrong, perm, a, b) /\ a < m
      BY <1>1, <1>2, <1>10, <2>1, <2>middle, <2>4, <2>3, <2>7, SegmentOdd
    <3>3. Odd(wrong, perm, a, b) <=> ~(Odd(wrong, perm, a, m) <=> Odd(wrong, perm, m, b))
      BY <1>10, <2>middle, <2>4, OddSplit
    <3>4. OddParity(Segment(a, m)) <=> Odd(wrong, perm, a, m)
      BY <1>1, <1>2, <2>middle, <2>4, SegmentOdd
    <3>5. CASE Odd(wrong, perm, a, m)
      <4>1. stack' = <<Segment(a, m), Segment(m, b)>>
        BY <3>1, <3>4, <3>5
      <4>2. ~Odd(wrong, perm, m, b)
        BY <3>2, <3>3, <3>5
      <4>3. from <= m /\ m <= e /\ from <= a
        BY <1>2, <1>10, <2>middle, <2>4
      <4>4. Odd(wrong', perm, a, m) <=> Odd(wrong', perm, from, e)
        BY <1>9, <3>1, <3>2, <3>5
      <4>5. ~Odd(wrong', perm, m, b)
        BY <3>1, <4>2
      <4>6. Bisecting(from)'
        BY <1>10, <1>11, <2>middle, <2>4, <3>2, <4>1, <4>3, <4>4, <4>5
      <4>7. QED
        BY <3>1, <4>6
    <3>6. CASE ~Odd(wrong, perm, a, m)
      <4>1. stack' = <<Segment(m, b)>>
        BY <3>1, <3>4, <3>6
      <4>2. Odd(wrong, perm, m, b)
        BY <3>2, <3>3, <3>6
      <4>3. from <= m
        BY <1>2, <1>10, <2>middle, <2>4
      <4>4. Odd(wrong', perm, m, b) <=> Odd(wrong', perm, from, e)
        BY <1>9, <3>1, <3>2, <4>2
      <4>5. Bisecting(from)'
        BY <1>10, <1>11, <2>middle, <2>4, <4>1, <4>3, <4>4
      <4>6. QED
        BY <3>1, <4>5
    <3>7. QED
      BY <3>5, <3>6
  <2>8. QED
    BY <2>5, <2>6, <2>7
<1>13. ASSUME NEW c \in 0..sifted, NEW d \in 0..sifted,
              Inside(from, c, d), ~Odd(wrong, perm, c, d),
              stack = <<Segment(a, b), Segment(c, d)>>
       PROVE  UNCHANGED wrong /\ Bisecting(from)'
  <2>1. PICK seg : seg = Segment(c, d)
    OBVIOUS
  <2>2. Last(stack) = seg /\ Front(stack) = <<Segment(a, b)>>
    BY <1>13, <2>1, LastFront
  <2>3. c < d /\ c \in Nat /\ d \in Nat /\ sifted \in Nat
    BY <1>2, <1>13 DEF Inside
  <2>4. Len(seg) = d - c /\ seg[1] = perm[c + 1]
    BY <1>1, <1>2, <2>1, <2>3, Halves
  <2>5. UNCHANGED wrong /\ stack' = <<Segment(a, b)>>
    <3>1. CASE Len(seg) = 1
      <4>1. d = c + 1
        <5>1. d - c = 1
          BY <2>4, <3>1, Zenon
        <5>2. QED
          BY <2>3, <5>1
      <4>2. perm[c + 1] \notin wrong
        BY <1>13, <2>3, <4>1, SinglePlace
      <4>3. wrong' = wrong \ {perm[c + 1]} /\ stack' = <<Segment(a, b)>>
        BY <2>2, <2>4, <3>1 DEF Bisect
      <4>4. QED
        BY <4>2, <4>3
    <3>2. CASE Len(seg) # 1
      <4>1. ~OddParity(seg)
        BY <1>1, <1>2, <1>13, <2>1, <2>3, SegmentOdd
      <4>2. QED
        BY <2>2, <3>2, <4>1 DEF Bisect
    <3>3. QED
      BY <3>1, <3>2
  <2>6. QED
    BY <1>9, <1>10, <1>11, <2>5
<1>14. QED
  BY <1>9, <1>12, <1>13

-----------------------------------------------------------------------------
LEMMA KeyInvInit == KeyInit => KeyInv
BY QuantumKeyAssumption DEF KeyInit, KeyInv, KeyTypeOK, PassInv

LEMMA TransmitSettles ==
  ASSUME KeyInv, NEW flipped, NEW eve, NEW luck, Transmit(flipped, eve, luck)
  PROVE  KeyInv'
<1>1. /\ phase = "sifting" /\ phase' = phase /\ sifted < MaxSifted /\ sifted' = sifted + 1
      /\ wrong' = wrong \cup {sifted + 1} \/ wrong' = wrong
      /\ UNCHANGED <<pass, chunk, stack>>
  BY DEF Transmit
<1>2. sifted \in Nat /\ sifted <= MaxSifted /\ wrong \in SUBSET (1..sifted) /\ MaxSifted \in Nat
  BY QuantumKeyAssumption DEF KeyInv, KeyTypeOK
<1>3. sifted' \in 0..MaxSifted /\ wrong' \in SUBSET (1..sifted')
  <2>1. sifted' \in 0..MaxSifted
    BY <1>1, <1>2
  <2>2. 1..sifted \subseteq 1..(sifted + 1) /\ sifted + 1 \in 1..(sifted + 1)
    BY <1>2
  <2>3. wrong' \subseteq 1..(sifted + 1)
    BY <1>1, <1>2, <2>2
  <2>4. QED
    BY <1>1, <2>1, <2>3
<1>4. QED
  BY <1>1, <1>3 DEF KeyInv, KeyTypeOK, PassInv

LEMMA BlockForType ==
  ASSUME NEW n \in Nat, NEW errors \in Nat
  PROVE  BlockFor(n, errors) \in Nat \ {0}
<1>1. CASE errors = 0
  BY <1>1 DEF BlockFor
<1>2. CASE errors # 0
  <2>1. PICK d \in Nat \ {0} : d = 200 * errors
    BY <1>2
  <2>2. PICK x \in Int : x = (146 * n + 100 * errors) \div d
    BY <2>1
  <2>3. BlockFor(n, errors) = Clamped(x, 4, 32)
    BY <1>2, <2>1, <2>2 DEF BlockFor
  <2>4. QED
    BY <2>2, <2>3 DEF Clamped
<1>3. QED
  BY <1>1, <1>2

LEMMA ReconcileSettles ==
  ASSUME KeyInv, NEW block \in {BlockFor(sifted, Cardinality(wrong)), 7}, Reconcile(block)
  PROVE  KeyInv'
<1>1. sifted \in Nat /\ wrong \in SUBSET (1..sifted) /\ phase = "sifting" /\ stack = <<>>
  BY DEF KeyInv, KeyTypeOK, Reconcile
<1>2. /\ phase' = "passes" /\ block0' = block /\ pass' = 0 /\ chunk' = 0
      /\ perm' = [i \in 1..sifted |-> i]
      /\ UNCHANGED <<sifted, wrong, stack>>
  BY DEF Reconcile
<1>3. block \in Nat \ {0}
  <2>1. Cardinality(wrong) \in Nat
    <3>1. IsFiniteSet(1..sifted)
      BY <1>1, FS_Interval
    <3>2. IsFiniteSet(wrong)
      BY <1>1, <3>1, FS_Subset
    <3>3. QED
      BY <3>2, FS_CardinalityType
  <2>2. BlockFor(sifted, Cardinality(wrong)) \in Nat \ {0}
    BY <1>1, <2>1, BlockForType
  <2>3. QED
    BY <2>2
<1>4. IsPermutation(perm', sifted)
  BY <1>1, <1>2 DEF IsPermutation, IsOrder
<1>5. KeyTypeOK'
  BY <1>1, <1>2, <1>3, <1>4 DEF KeyInv, KeyTypeOK
<1>6. BlockLength' = block
  BY <1>2 DEF BlockLength
<1>7. 0 % block = 0
  BY <1>3
<1>8. \A from \in 0..sifted : ~(from < 0)
  BY <1>1
<1>9. PassInv'
  BY <1>1, <1>2, <1>6, <1>7, <1>8 DEF PassInv, SettledBefore
<1>10. QED
  BY <1>5, <1>9 DEF KeyInv

\* A new pass has no block behind it.
LEMMA EndPassSettles ==
  ASSUME KeyInv, NEW order \in Orders[sifted], EndPass(order)
  PROVE  KeyInv'
<1>1. /\ sifted \in 0..MaxSifted /\ sifted \in Nat /\ pass \in Nat /\ chunk \in Nat
      /\ wrong \in SUBSET (1..sifted) /\ block0 \in Nat \ {0}
      /\ phase = "passes" /\ stack = <<>> /\ UNCHANGED <<sifted, wrong, block0, stack>>
      /\ pass' = pass + 1
  BY DEF KeyInv, KeyTypeOK, EndPass
<1>2. CASE phase' = "done" /\ UNCHANGED <<perm, chunk>>
  BY <1>1, <1>2 DEF KeyInv, KeyTypeOK, PassInv
<1>3. CASE perm' = order /\ chunk' = 0 /\ UNCHANGED phase
  <2>1. IsPermutation(order, sifted)
    BY <1>1, QuantumKeyAssumption DEF IsPermutation, IsOrder
  <2>2. KeyTypeOK'
    BY <1>1, <1>3, <2>1 DEF KeyTypeOK
  <2>3. (block0' \in Nat \ {0} /\ pass' \in Nat) => BlockLength' \in Nat \ {0}
    <3>1. ASSUME NEW b \in Nat \ {0}, NEW p \in Nat
          PROVE  (IF p = 0 THEN b ELSE b * <<2, 4, 8, 16, 32, 64>>[IF p < 6 THEN p ELSE 6]) \in Nat \ {0}
      OBVIOUS
    <3>2. QED
      BY <3>1 DEF BlockLength
  <2>4. PICK n \in Nat \ {0} : n = BlockLength'
    BY <1>1, <2>3
  <2>5. 0 % n = 0
    OBVIOUS
  <2>6. \A from \in 0..sifted : ~(from < 0)
    BY <1>1
  <2>7. PassInv'
    BY <1>1, <1>3, <2>4, <2>5, <2>6 DEF PassInv, SettledBefore
  <2>8. QED
    BY <2>2, <2>7 DEF KeyInv
<1>4. QED
  BY <1>2, <1>3 DEF EndPass

LEMMA KeyInvStep == KeyInv /\ [KeyNext]_keyVars => KeyInv'
<1>1. SUFFICES ASSUME KeyInv, [KeyNext]_keyVars PROVE KeyInv'
  OBVIOUS
<1>2. CASE UNCHANGED keyVars
  <2>1. UNCHANGED <<sifted, block0, pass, perm>> /\ UNCHANGED <<wrong, chunk, phase, stack>>
    BY <1>2 DEF keyVars
  <2>2. /\ BlockLength' = BlockLength /\ (HammingPass' <=> HammingPass)
        /\ \A from : EndOf(from)' = EndOf(from)
        /\ \A a, b : Segment(a, b)' = Segment(a, b)
        /\ \A from, a, b : Inside(from, a, b)' <=> Inside(from, a, b)
    BY <2>1, PassFrame
  <2>3. \A from : Settled(from)' <=> Settled(from)
    BY <2>1, <2>2 DEF Settled
  <2>4. \A end : SettledBefore(end)' <=> SettledBefore(end)
    BY <2>1, <2>2, <2>3 DEF SettledBefore
  <2>5. \A from : Bisecting(from)' <=> Bisecting(from)
    BY <2>1, <2>2 DEF Bisecting
  <2>6. PassInv'
    BY <1>1, <2>1, <2>2, <2>4, <2>5 DEF KeyInv, PassInv
  <2>7. QED
    BY <1>1, <2>1, <2>6 DEF KeyInv, KeyTypeOK
<1>3. ASSUME NEW flipped \in BOOLEAN, NEW luck \in BOOLEAN, NEW eve \in {"none", "same", "other"},
             Transmit(flipped, eve, luck)
      PROVE  KeyInv'
  BY <1>1, <1>3, TransmitSettles
<1>4. ASSUME NEW block \in {BlockFor(sifted, Cardinality(wrong)), 7}, Reconcile(block)
      PROVE  KeyInv'
  BY <1>1, <1>4, ReconcileSettles
<1>5. ASSUME NEW order \in Orders[sifted], EndPass(order)
      PROVE  KeyInv'
  BY <1>1, <1>5, EndPassSettles
<1>6. QED
  BY <1>1, <1>2, <1>3, <1>4, <1>5, HammingSettles, OpenSettles, BisectSettles DEF KeyNext

\* For keys of any length, however a shuffle orders them and whatever the opening
\* block: no block a pass is done with is left with a single error (Hamming) or with
\* an odd number of them (bisection), to the end of the pass.
THEOREM BlocksStaySettled == KeySpec => []BlocksSettled
<1>1. KeySpec => []KeyInv
  BY KeyInvInit, KeyInvStep, PTL DEF KeySpec
<1>2. QED
  BY <1>1, SettledMeans, PTL

-----------------------------------------------------------------------------
(***************************************************************************)
(* Six-state sessions.                                                     *)
(***************************************************************************)

Click == [alice : {0, 1}, bob : {0, 1}, struck : BOOLEAN]

SixTypeOK == clicks \in [Messages -> Seq(Click)]

\* The two strings differ at a conclusive round exactly when it was struck.
DiffersWhereStruck ==
  \A m \in Messages : \A i \in 1..Len(clicks[m]) :
    clicks[m][i].alice # clicks[m][i].bob <=> clicks[m][i].struck

SixInv == SixTypeOK /\ DiffersWhereStruck

-----------------------------------------------------------------------------
\* The set announced for a qubit has it and a state of another basis, in either
\* order.
LEMMA SetOfTwo ==
  ASSUME NEW prepared \in State, NEW set \in SetsContaining(prepared)
  PROVE  \E other \in State : /\ other.basis # prepared.basis
                              /\ set = <<prepared, other>> \/ set = <<other, prepared>>
BY DEF SetsContaining

\* What is conclusive means one of two bits.
LEMMA ConclusiveIsBit ==
  ASSUME NEW outcome, NEW set, NEW bit \in ConclusiveBit(outcome, set)
  PROVE  bit \in {0, 1}
BY DEF ConclusiveBit

\* Measured in the basis it was prepared in, a qubit is conclusive only when it was
\* flipped, and then for the wrong bit; measured in the other basis of the set,
\* it is conclusive for the right one.
LEMMA ConclusiveWrongWhenFlipped ==
  ASSUME NEW prepared \in State, NEW set \in SetsContaining(prepared), NEW disturb \in BOOLEAN,
         NEW outcome \in State,
         outcome \in Outcomes(IF disturb THEN [prepared EXCEPT !.sign = Flip(@)] ELSE prepared,
                              outcome.basis),
         NEW bit \in ConclusiveBit(outcome, set)
  PROVE  bit # LogicBit(prepared, set) <=> disturb /\ outcome.basis = prepared.basis
<1> DEFINE wire == IF disturb THEN [prepared EXCEPT !.sign = Flip(@)] ELSE prepared
<1>1. PICK other \in State : /\ other.basis # prepared.basis
                             /\ set = <<prepared, other>> \/ set = <<other, prepared>>
  BY SetOfTwo
<1>2. PICK k \in 1..2 : /\ bit = 2 - k
                        /\ outcome.basis = set[k].basis /\ outcome.sign # set[k].sign
  BY DEF ConclusiveBit
<1>3. LogicBit(prepared, set) = IF set[1] = prepared THEN 0 ELSE 1
  BY DEF LogicBit
<1>4. CASE outcome.basis = prepared.basis
  <2>1. set[k] = prepared
    <3>1. CASE set = <<prepared, other>>
      <4>1. set[1] = prepared /\ set[2] = other /\ (k = 1 \/ k = 2)
        BY <3>1
      <4>2. QED
        BY <1>1, <1>2, <1>4, <3>1, <4>1
    <3>2. CASE set = <<other, prepared>>
      <4>1. set[1] = other /\ set[2] = prepared /\ (k = 1 \/ k = 2)
        BY <3>2
      <4>2. QED
        BY <1>1, <1>2, <1>4, <3>2, <4>1
    <3>3. QED
      BY <1>1, <3>1, <3>2
  <2>2. wire.basis = outcome.basis
    BY <1>4 DEF State
  <2>3. outcome = wire
    BY <2>2 DEF Outcomes
  <2>4. disturb
    BY <1>2, <2>1, <2>3
  <2>5. bit # LogicBit(prepared, set)
    BY <1>1, <1>2, <1>3, <2>1
  <2>6. QED
    BY <1>4, <2>4, <2>5
<1>5. CASE outcome.basis # prepared.basis
  BY <1>1, <1>2, <1>3, <1>5
<1>6. QED
  BY <1>4, <1>5

-----------------------------------------------------------------------------
\* One pulse adds a round that differs exactly when it was struck, or none.
LEMMA PulseKeeps ==
  ASSUME SixInv, NEW m \in Messages, NEW prepared \in State, NEW outcome \in State,
         NEW disturb \in BOOLEAN, NEW misaligned \in BOOLEAN,
         NEW set \in SetsContaining(prepared),
         Pulse(m, prepared, set, disturb, outcome, misaligned)
  PROVE  SixInv'
<1> DEFINE wire == IF disturb THEN [prepared EXCEPT !.sign = Flip(@)] ELSE prepared
           round(bit) == [alice  |-> LogicBit(prepared, set),
                          bob    |-> IF misaligned THEN 1 - bit ELSE bit,
                          struck |-> (disturb /\ outcome.basis = prepared.basis) # misaligned]
<1>1. CASE UNCHANGED clicks
  BY <1>1 DEF SixInv, SixTypeOK, DiffersWhereStruck
<1>2. ASSUME NEW bit \in ConclusiveBit(outcome, set),
             clicks' = [clicks EXCEPT ![m] = Append(@, round(bit))]
      PROVE  SixInv'
  <2>1. outcome \in Outcomes(wire, outcome.basis)
    BY DEF Pulse
  <2>2. bit # LogicBit(prepared, set) <=> disturb /\ outcome.basis = prepared.basis
    BY <1>2, <2>1, ConclusiveWrongWhenFlipped
  <2>3. bit \in {0, 1} /\ LogicBit(prepared, set) \in {0, 1}
    BY <1>2, ConclusiveIsBit DEF LogicBit
  <2>4. round(bit) \in Click
    BY <2>3 DEF Click
  <2>5. round(bit).alice # round(bit).bob <=> round(bit).struck
    <3> DEFINE hit == disturb /\ outcome.basis = prepared.basis
    <3>1. /\ round(bit).alice = LogicBit(prepared, set)
          /\ round(bit).bob = IF misaligned THEN 1 - bit ELSE bit
      OBVIOUS
    <3>2. round(bit).struck <=> ~(hit <=> misaligned)
      <4>1. hit \in BOOLEAN
        OBVIOUS
      <4>2. (hit # misaligned) <=> ~(hit <=> misaligned)
        BY <4>1, Zenon
      <4>3. QED
        BY <4>2
    <3>3. CASE misaligned
      <4>1. round(bit).bob = 1 - bit
        BY <3>1, <3>3
      <4>2. round(bit).alice # round(bit).bob <=> ~(bit # LogicBit(prepared, set))
        BY <2>3, <3>1, <4>1
      <4>3. round(bit).struck <=> ~hit
        BY <3>2, <3>3
      <4>4. bit # LogicBit(prepared, set) <=> hit
        BY <2>2
      <4>5. QED
        BY <4>2, <4>3, <4>4
    <3>4. CASE ~misaligned
      BY <2>2, <2>3, <3>1, <3>2, <3>4
    <3>5. QED
      BY <3>3, <3>4
  <2>6. clicks[m] \in Seq(Click) /\ clicks'[m] = Append(clicks[m], round(bit))
    BY <1>2 DEF SixInv, SixTypeOK
  <2>7. \A p \in Messages : p # m => clicks'[p] = clicks[p]
    BY <1>2 DEF SixInv, SixTypeOK
  <2>8. SixTypeOK'
    BY <1>2, <2>4, <2>6 DEF SixInv, SixTypeOK
  <2>9. ASSUME NEW p \in Messages, NEW i \in 1..Len(clicks'[p])
        PROVE  clicks'[p][i].alice # clicks'[p][i].bob <=> clicks'[p][i].struck
    <3>1. CASE p # m
      BY <2>7, <2>9, <3>1 DEF SixInv, DiffersWhereStruck
    <3>2. CASE p = m /\ i <= Len(clicks[m])
      <4>1. clicks'[p][i] = clicks[p][i] /\ i \in 1..Len(clicks[p])
        BY <2>4, <2>6, <2>9, <3>2
      <4>2. QED
        BY <4>1 DEF SixInv, DiffersWhereStruck
    <3>3. CASE p = m /\ ~(i <= Len(clicks[m]))
      <4>1. clicks'[p][i] = round(bit)
        BY <2>4, <2>6, <2>9, <3>3
      <4>2. QED
        BY <2>5, <4>1
    <3>4. QED
      BY <3>1, <3>2, <3>3
  <2>10. QED
    BY <2>8, <2>9 DEF SixInv, DiffersWhereStruck
<1>3. QED
  BY <1>1, <1>2 DEF Pulse

LEMMA SixInvariant == SixSpec => []SixInv
<1>1. SixInit => SixInv
  BY DEF SixInit, SixInv, SixTypeOK, DiffersWhereStruck
<1>2. SixInv /\ [SixNext]_sixVars => SixInv'
  <2>1. SUFFICES ASSUME SixInv, [SixNext]_sixVars PROVE SixInv'
    OBVIOUS
  <2>2. CASE UNCHANGED sixVars
    BY <2>1, <2>2 DEF sixVars, SixInv, SixTypeOK, DiffersWhereStruck
  <2>3. CASE SixNext
    BY <2>1, <2>3, PulseKeeps DEF SixNext
  <2>4. QED
    BY <2>1, <2>2, <2>3
<1>3. QED
  BY <1>1, <1>2, PTL DEF SixSpec

-----------------------------------------------------------------------------
\* The strings compared are as long as the rounds that were conclusive.
LEMMA StringsAlign ==
  ASSUME SixInv, NEW m \in Messages
  PROVE  /\ Len(clicks[m]) \in Nat
         /\ Len(Signed6(m).bits) = Len(clicks[m])
         /\ Len(Material[m]) = Len(clicks[m])
         /\ Compared(Signed6(m).bits, Material[m]) = Len(clicks[m])
         /\ \A i \in 1..Len(clicks[m]) : /\ Signed6(m).bits[i] = clicks[m][i].alice
                                         /\ Material[m][i] = clicks[m][i].bob
<1>1. Len(clicks[m]) \in Nat
  BY DEF SixInv, SixTypeOK
<1>2. /\ Signed6(m).bits = [i \in 1..Len(clicks[m]) |-> clicks[m][i].alice]
      /\ Material[m] = [i \in 1..Len(clicks[m]) |-> clicks[m][i].bob]
  BY DEF Signed6, Material
<1>3. Len(Signed6(m).bits) = Len(clicks[m]) /\ Len(Material[m]) = Len(clicks[m])
  BY <1>1, <1>2
<1>4. QED
  BY <1>1, <1>2, <1>3 DEF Compared

\* A genuine signature mismatches exactly at the rounds that were struck, of any
\* number of rounds; undamaged, it is accepted for good under any thresholds; and
\* the detection layer names an attack exactly when the verifier rejects.
THEOREM VerdictsAlwaysFollowDamage == SixSpec => []VerdictsFollowDamage
<1>1. SixInv => VerdictsFollowDamage
  <2>1. SUFFICES ASSUME SixInv, NEW m \in Messages
                 PROVE  LET bits == Signed6(m).bits
                            struck == Cardinality({ i \in 1..Len(clicks[m]) : clicks[m][i].struck })
                        IN  /\ Mismatches(bits, Material[m]) = struck
                            /\ struck = 0 /\ Authorized(Material)
                                 => VerifySixState(Signed6(m), Material, TRUE) = "1-ACC"
                            /\ \A sameSession \in BOOLEAN :
                                 VerifySixState(Signed6(m), Material, sameSession) = "REJ" <=>
                                   Classify(sameSession, Authorized(Material), TRUE,
                                            struck, Compared(bits, Material[m])) # "none"
    BY DEF VerdictsFollowDamage
  <2> DEFINE bits == Signed6(m).bits
             Struck == { i \in 1..Len(clicks[m]) : clicks[m][i].struck }
             total == Compared(bits, Material[m])
  <2>2. total \in Nat /\ Signed6(m).message = m
    BY <2>1, StringsAlign DEF Signed6
  <2>3. { i \in 1..total : bits[i] # Material[m][i] } = Struck
    BY <2>1, StringsAlign DEF SixInv, DiffersWhereStruck
  <2>4. Mismatches(bits, Material[m]) = Cardinality(Struck)
    BY <2>3 DEF Mismatches
  <2>5. Cardinality(Struck) \in Nat
    <3>1. IsFiniteSet(1..Len(clicks[m]))
      <4>1. Len(clicks[m]) \in Int /\ 1 \in Int
        BY <2>1, StringsAlign
      <4>2. QED
        BY <4>1, FS_Interval
    <3>2. QED
      BY <3>1, FS_Subset, FS_CardinalityType
  <2>6. ASSUME NEW sameSession \in BOOLEAN
        PROVE  VerifySixState(Signed6(m), Material, sameSession) =
                 IF ~Authorized(Material) \/ ~sameSession THEN "REJ"
                 ELSE IF 100 * Cardinality(Struck) <= C1 * total THEN "1-ACC"
                 ELSE IF 100 * Cardinality(Struck) <= C2 * total THEN "0-ACC" ELSE "REJ"
    BY <2>2, <2>4 DEF VerifySixState
  <2>7. Cardinality(Struck) = 0 /\ Authorized(Material)
          => VerifySixState(Signed6(m), Material, TRUE) = "1-ACC"
    <3>1. C1 * total \in Nat
      BY <2>2, SixStateAssumption
    <3>2. SUFFICES ASSUME Cardinality(Struck) = 0, Authorized(Material)
                   PROVE  VerifySixState(Signed6(m), Material, TRUE) = "1-ACC"
      OBVIOUS
    <3>3. 100 * Cardinality(Struck) <= C1 * total
      BY <3>1, <3>2
    <3>4. QED
      BY <2>6, <3>2, <3>3
  <2>8. C1 * total <= C2 * total /\ C1 * total \in Nat /\ C2 * total \in Nat
    BY <2>2, SixStateAssumption
  <2>9. ASSUME NEW sameSession \in BOOLEAN
        PROVE  VerifySixState(Signed6(m), Material, sameSession) = "REJ" <=>
                 Classify(sameSession, Authorized(Material), TRUE, Cardinality(Struck), total) # "none"
    BY <2>5, <2>6, <2>8, <2>9 DEF Classify
  <2>10. QED
    BY <2>4, <2>7, <2>9
<1>2. QED
  BY <1>1, SixInvariant, PTL
=============================================================================
