--------------------------- MODULE MCQuorumPledge ---------------------------
(* Instances of QuorumPledge for TLC. *)
EXTENDS QuorumPledge

CONSTANTS u1, u2, u3, h1

\* A third account in place of the first.
Replaced == {<<u1, u2>>, <<u3, u2>>}
=============================================================================
