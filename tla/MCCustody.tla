------------------------------ MODULE MCCustody ------------------------------
(***************************************************************************)
(* Custody of a split key, for TLC: a behaviour is of the accounts that    *)
(* hold the shares (QuorumPledge) or of the arithmetic that makes and      *)
(* combines them (Shamir), as `part` says, and the other rests.            *)
(***************************************************************************)
EXTENDS QuorumPledge, Shamir, TLC

CONSTANTS u1, u2, h1, h2

Symmetry == Permutations(Handlers) \cup Permutations(Users)

\* Two accounts in either order, and either of them named twice.
Swapped == {<<u1, u2>>, <<u2, u1>>, <<u1, u1>>, <<u2, u2>>}

\* GF(7) as a whole; Bytes goes beyond it.
AllCoefs == 0..6
QuorumsSmall == {<<2, 3>>, <<3, 4>>, <<3, 3>>}

VARIABLE part

Resting == byte = 0 /\ isLast = FALSE /\ quorum = <<2, 3>>

CustodyInit ==
  /\ part \in {"pledge", "field"}
  /\ Init /\ SplitInit
  /\ part = "pledge" => Resting

CustodyNext ==
  /\ UNCHANGED part
  /\ \/ part = "pledge" /\ Next /\ UNCHANGED splitVars
     \/ part = "field" /\ SplitNext /\ UNCHANGED vars

CustodySpec == CustodyInit /\ [][CustodyNext]_<<part, vars, splitVars>>
=============================================================================
