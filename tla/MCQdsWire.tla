------------------------------ MODULE MCQdsWire ------------------------------
(* Instances of QdsWire for TLC. *)
EXTENDS QdsWire, TLC

CONSTANTS n1, n2, m1, m2, e1, e2

Symmetry == Permutations(Notaries) \cup Permutations(Message) \cup Permutations(Entropy)
=============================================================================
