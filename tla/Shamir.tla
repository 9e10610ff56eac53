-------------------------------- MODULE Shamir --------------------------------
(***************************************************************************)
(* The k-of-m split of a sealing key (sealing/src/lib.rs): split_secret    *)
(* draws one polynomial over GF(251) for each byte of the canonical key,   *)
(* combine_shares interpolates it at 0.  The bytes are independent, so the *)
(* module follows one of them: the last one, which canonicalize_key        *)
(* reduces, or one of the 31 others, which it does not.                    *)
(*                                                                         *)
(* The code computes in u16; U16 wraps as a release build does.            *)
(***************************************************************************)
EXTENDS Integers, Sequences, FiniteSets, SequencesExt

CONSTANTS
  P,           \* GF_P, a prime below 256
  Bytes,       \* the bytes a key may hold
  Coefs,       \* the coefficients the generator may draw
  Quorums      \* the pairs <<threshold, shares>> a request may ask for

ASSUME ShamirAssumption ==
  /\ P \in 3..255 /\ \A d \in 2..(P - 1) : P % d # 0
  /\ Bytes \subseteq 0..255 /\ Coefs \subseteq 0..(P - 1)
  /\ \A q \in Quorums : q[1] \in 2..15 /\ q[2] \in q[1]..15 /\ q[2] < P

VARIABLES
  byte,        \* one byte of the session key
  isLast,      \* it is the last one
  quorum,      \* the threshold and the number of shares asked for
  row,         \* its polynomial; empty before the split
  y,           \* its y-coordinate in each share
  presented    \* the shares that combine_shares gets

splitVars == <<byte, isLast, quorum, row, y, presented>>

U16(n) == n % 65536

\* canonicalize_key
Canonical == IF isLast THEN byte % P ELSE byte

\* Mutant: the coefficients are drawn from 1 up.
RowsNonzero(b) == { <<b>> \o drawn : drawn \in [1..(quorum[1] - 1) -> Coefs \ {0}] }

\* split_secret: the polynomials it may draw for the byte b.
Rows(b) == { <<b>> \o drawn : drawn \in [1..(quorum[1] - 1) -> Coefs] }

\* split_secret, one share: the polynomial at x by Horner's rule.
Eval(coefs, x) == FoldRight(LAMBDA c, acc : U16(U16(acc * x) + c) % P, coefs, 0)

\* Each a to the power e, by squaring, as gf_inv does.
Power[e \in 0..P] ==
  [a \in 0..(P - 1) |->
     IF e = 0 THEN 1
     ELSE LET rest == Power[e \div 2][U16(a * a) % P]
          IN  IF e % 2 = 1 THEN U16(rest * a) % P ELSE rest]

\* Mutant: the exponent is P - 1.
GfInvOffByOne == Power[P - 1]

\* gf_inv, as a table.
GfInv == Power[P - 2]

\* combine_shares, the Lagrange coefficient of the share at xi.
Lagrange(xs, xi) ==
  LET others == xs \ {xi}
      num == FoldSet(LAMBDA xj, acc : U16(acc * xj) % P, 1, others)
      den == FoldSet(LAMBDA xj, acc : U16(acc * ((xj + P - xi) % P)) % P, 1, others)
  IN  U16(num * GfInv[den]) % P

\* combine_shares, one byte of the key.
Combine(xs) ==
  FoldSet(LAMBDA xi, acc : U16(acc + U16(Lagrange(xs, xi) * y[xi])) % P, 0, xs)

-----------------------------------------------------------------------------
SplitInit ==
  /\ byte \in Bytes /\ isLast \in BOOLEAN
  /\ quorum \in Quorums
  /\ row = <<>> /\ y = <<>>
  /\ presented = {}

\* split_secret: the shares of every byte from a row of its own.
Split ==
  /\ row = <<>>
  /\ row' \in Rows(Canonical)
  /\ y' = [x \in 1..quorum[2] |-> Eval(row', x)]
  /\ UNCHANGED <<byte, isLast, quorum, presented>>

\* combine_shares gets shares with distinct x, at least two of them; fewer than
\* the threshold when it is called on its own.
Present ==
  /\ row # <<>> /\ presented = {}
  /\ \E xs \in SUBSET (1..quorum[2]) : Cardinality(xs) >= 2 /\ presented' = xs
  /\ UNCHANGED <<byte, isLast, quorum, row, y>>

SplitNext == Split \/ Present

SplitSpec == SplitInit /\ [][SplitNext]_splitVars

-----------------------------------------------------------------------------
Enough == Cardinality(presented) >= quorum[1]

\* Any k shares, or more, give back the canonical byte that was split, with no
\* intermediate value that overflows, for every byte of the field.
QuorumRestores == Enough /\ Canonical < P => Combine(presented) = Canonical

\* "Reconstructed keys match sealed commitments exactly": for every byte.
QuorumAlwaysRestores == Enough => Combine(presented) = Canonical

\* k - 1 shares tell nothing: whatever the byte of the field, it may have been
\* split into the same k - 1 shares.
SharesHideByte ==
  row # <<>> /\ presented = {} =>
    \A hidden \in 0..(P - 1) :
      \A xs \in SUBSET (1..quorum[2]) :
        Cardinality(xs) = quorum[1] - 1 =>
          \E other \in Rows(hidden) : \A x \in xs : Eval(other, x) = y[x]
=============================================================================
