----------------------------- MODULE QuantumKey -----------------------------
(***************************************************************************)
(* The raw key of a run (quantum/src/lib.rs): a six-state channel sifts    *)
(* bits, then Bob's copy is reconciled with Alice's by Hamming blocks or   *)
(* by bisection, pass after pass, each over a new order of the positions.  *)
(*                                                                         *)
(* Parities are only compared and syndromes only added, so of the two      *)
(* strings it matters at which positions they differ.  The random draws of *)
(* the channel, and the order a shuffle leads to, are choices.  Counting   *)
(* the bits told to the channel is left out.                               *)
(***************************************************************************)
EXTENDS Naturals, Sequences, SequencesExt, FiniteSets

CONSTANTS
  MaxSifted,     \* sifted positions (bounds the model)
  Orders,        \* Orders[n]: the orders a shuffle of n positions may lead to
  Scheduled,     \* passes asked for: the server asks for 3
  Extra          \* passes added while errors remain: 5

ASSUME QuantumKeyAssumption ==
  /\ MaxSifted \in Nat /\ Scheduled \in Nat \ {0} /\ Extra \in Nat
  /\ \A n \in 0..MaxSifted : \A o \in Orders[n] :
       /\ o \in Seq(1..n) /\ Len(o) = n
       /\ \A i, j \in 1..n : o[i] = o[j] => i = j

VARIABLES
  sifted,     \* length of the sifted strings
  wrong,      \* positions at which bob_bits differs from alice
  disturbed,       \* history: wrong when the reconciliation began
  corrected,  \* corrected_positions
  phase,      \* "sifting", "passes" or "done"
  block0,     \* opening block length
  pass,
  perm,       \* order of the positions in this pass
  chunk,      \* positions of this pass already given to a block
  stack       \* segments still to be bisected

keyVars == <<sifted, wrong, disturbed, corrected, phase, block0, pass, perm, chunk, stack>>

KeyInit ==
  /\ sifted = 0 /\ wrong = {} /\ disturbed = {} /\ corrected = {}
  /\ phase = "sifting" /\ block0 = 0 /\ pass = 0
  /\ perm = <<>> /\ chunk = 0 /\ stack = <<>>

\* transmit, when Bob's basis is Alice's (other positions are dropped): noise flips
\* the state; an Eve in another basis makes Bob's outcome random.
Transmit(flipped, eve, luck) ==
  /\ phase = "sifting" /\ sifted < MaxSifted
  /\ sifted' = sifted + 1
  /\ wrong' = IF (IF eve = "other" THEN luck ELSE flipped) THEN wrong \cup {sifted + 1} ELSE wrong
  /\ UNCHANGED <<disturbed, corrected, phase, block0, pass, perm, chunk, stack>>

Clamped(x, low, high) == IF x < low THEN low ELSE IF x > high THEN high ELSE x

\* reconcile_adaptive: 0.73 / QBER, rounded, from 4 to 32.
BlockFor(n, errors) ==
  IF errors = 0 THEN 32 ELSE Clamped((146 * n + 100 * errors) \div (200 * errors), 4, 32)

\* reconcile_with_block begins, from reconcile_adaptive or from reconcile (7).
Reconcile(block) ==
  /\ phase = "sifting"
  /\ phase' = "passes" /\ block0' = block /\ pass' = 0
  /\ perm' = [i \in 1..sifted |-> i] /\ chunk' = 0
  /\ disturbed' = wrong /\ corrected' = {}
  /\ UNCHANGED <<sifted, wrong, stack>>

\* block0 << pass.min(6)
BlockLength ==
  IF pass = 0 THEN block0 ELSE block0 * <<2, 4, 8, 16, 32, 64>>[IF pass < 6 THEN pass ELSE 6]

\* The block that begins after `from` positions.
BlockAt(from) ==
  SubSeq(perm, from + 1, IF from + BlockLength < sifted THEN from + BlockLength ELSE sifted)

Errors(block) == { i \in 1..Len(block) : block[i] \in wrong }
OddParity(block) == Cardinality(Errors(block)) % 2 = 1

HammingPass == pass = 0 /\ block0 = 7

\* hamming_syndrome of Bob's block plus that of Alice's.
Syndrome(block) ==
  LET parity(places) == Cardinality(places \cap Errors(block)) % 2
  IN  parity({1, 3, 5, 7}) + 2 * parity({2, 3, 6, 7}) + 4 * parity({4, 5, 6, 7})

\* Mutant: the place the syndrome names is flipped whatever comes of it.
HammingBlockBlindly ==
  /\ phase = "passes" /\ stack = <<>> /\ HammingPass /\ chunk < sifted
  /\ IF chunk + 7 > sifted
     THEN chunk' = sifted /\ UNCHANGED <<wrong, corrected>>
     ELSE /\ chunk' = chunk + 7
          /\ LET block == BlockAt(chunk)
                 s     == Syndrome(block)
             IN  IF s = 0 THEN UNCHANGED <<wrong, corrected>>
                 ELSE /\ wrong' = IF block[s] \in wrong THEN wrong \ {block[s]}
                                                        ELSE wrong \cup {block[s]}
                      /\ corrected' = corrected \cup {block[s]}
  /\ UNCHANGED <<sifted, disturbed, phase, block0, pass, perm, stack>>

\* One block of the Hamming pass: the place the syndrome names is flipped if that
\* makes the blocks equal.  The tail is left to later passes.
HammingBlock ==
  /\ phase = "passes" /\ stack = <<>> /\ HammingPass /\ chunk < sifted
  /\ IF chunk + 7 > sifted
     THEN chunk' = sifted /\ UNCHANGED <<wrong, corrected>>
     ELSE /\ chunk' = chunk + 7
          /\ LET block == BlockAt(chunk)
                 s     == Syndrome(block)
             IN  IF s # 0 /\ Errors(block) = {s}
                 THEN wrong' = wrong \ {block[s]} /\ corrected' = corrected \cup {block[s]}
                 ELSE UNCHANGED <<wrong, corrected>>
  /\ UNCHANGED <<sifted, disturbed, phase, block0, pass, perm, stack>>

\* One block of a Cascade pass is given to the bisection; a single bit is not.
OpenBlock ==
  /\ phase = "passes" /\ stack = <<>> /\ ~HammingPass /\ chunk < sifted
  /\ stack' = IF Len(BlockAt(chunk)) < 2 THEN <<>> ELSE <<BlockAt(chunk)>>
  /\ chunk' = chunk + BlockLength
  /\ UNCHANGED <<sifted, wrong, disturbed, corrected, phase, block0, pass, perm>>

\* Mutant: "skipping singletons was the silent killer".
BisectSkipsSingletons ==
  /\ stack # <<>>
  /\ LET seg   == Last(stack)
         rest  == Front(stack)
         left  == SubSeq(seg, 1, Len(seg) \div 2)
         right == SubSeq(seg, Len(seg) \div 2 + 1, Len(seg))
     IN  stack' = IF Len(seg) = 1 \/ ~OddParity(seg) THEN rest
                  ELSE IF OddParity(left) THEN rest \o <<left, right>> ELSE Append(rest, right)
  /\ UNCHANGED <<sifted, wrong, disturbed, corrected, phase, block0, pass, perm, chunk>>

\* One segment of the bisection: a single bit is set to Alice's; of an odd segment
\* the right half goes on, and the left one when it is the odd one.
Bisect ==
  /\ stack # <<>>
  /\ LET seg   == Last(stack)
         rest  == Front(stack)
         left  == SubSeq(seg, 1, Len(seg) \div 2)
         right == SubSeq(seg, Len(seg) \div 2 + 1, Len(seg))
     IN  IF Len(seg) = 1
         THEN /\ wrong' = wrong \ {seg[1]}
              /\ corrected' = IF seg[1] \in wrong THEN corrected \cup {seg[1]} ELSE corrected
              /\ stack' = rest
         ELSE /\ stack' = IF ~OddParity(seg) THEN rest
                          ELSE IF OddParity(left) THEN rest \o <<left, right>>
                               ELSE Append(rest, right)
              /\ UNCHANGED <<wrong, corrected>>
  /\ UNCHANGED <<sifted, disturbed, phase, block0, pass, perm, chunk>>

\* A pass ends: the next one is over a new order, or there is none.
EndPass(order) ==
  /\ phase = "passes" /\ stack = <<>> /\ chunk >= sifted
  /\ pass' = pass + 1
  /\ IF pass + 1 < Scheduled \/ (wrong # {} /\ pass + 1 < Scheduled + Extra)
     THEN perm' = order /\ chunk' = 0 /\ UNCHANGED phase
     ELSE phase' = "done" /\ UNCHANGED <<perm, chunk>>
  /\ UNCHANGED <<sifted, wrong, disturbed, corrected, block0, stack>>

KeyNext ==
  \/ \E flipped, luck \in BOOLEAN, eve \in {"none", "same", "other"} : Transmit(flipped, eve, luck)
  \/ \E block \in {BlockFor(sifted, Cardinality(wrong)), 7} : Reconcile(block)
  \/ HammingBlock \/ OpenBlock \/ Bisect
  \/ \E order \in Orders[sifted] : EndPass(order)

KeySpec == KeyInit /\ [][KeyNext]_keyVars

-----------------------------------------------------------------------------
\* No block, whatever it finds, makes a right bit wrong: what was corrected and
\* what is still wrong are together the errors of the channel, each once.
ErrorsAccounted ==
  phase # "sifting" => corrected \cup wrong = disturbed /\ corrected \cap wrong = {}

\* What a pass is done with stays settled to its end: no Hamming block is left
\* with a single error, and no bisected block with an odd number of them.
BlocksSettled ==
  phase = "passes" /\ stack = <<>> =>
    \A from \in { k \in 0..sifted : k < chunk /\ k % BlockLength = 0 } :
      LET left == Cardinality(Errors(BlockAt(from)))
      IN  IF HammingPass THEN Len(BlockAt(from)) = 7 => left # 1
          ELSE Len(BlockAt(from)) >= 2 => left % 2 = 0
=============================================================================
