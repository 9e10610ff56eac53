------------------------------- MODULE MCShamir -------------------------------
(* Instances of Shamir for TLC. *)
EXTENDS Shamir

\* GF(251): bytes and coefficients at the edges of the field.
EdgeBytes == {0, 1, 125, 250, 251, 255}
EdgeCoefs == {0, 1, 126, 250}
Quorums251 == {<<2, 3>>, <<3, 5>>}
=============================================================================
