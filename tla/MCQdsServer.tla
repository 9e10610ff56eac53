----------------------------- MODULE MCQdsServer -----------------------------
(* Instances of QdsServer for TLC. *)
EXTENDS QdsServer, TLC

CONSTANTS n1, n2, m1, m2, e1, e2, p1, p2

Symmetry == Permutations(Laptops) \cup Permutations(Message) \cup Permutations(Entropy)
=============================================================================
