------------------------------ MODULE AuditTree ------------------------------
(***************************************************************************)
(* The Merkle tree over the audit ledger (audit/src/lib.rs): the root, the *)
(* inclusion proof of one entry, the proofs of all entries for an export,  *)
(* and the verification of a proof.  The functions are pure; they are      *)
(* stated here over the log in memory of AuditLedger, so that every log    *)
(* the server can hold - after restarts, failures and resets - is tried.   *)
(*                                                                         *)
(* Digests are free terms: leaf hashes and node hashes never collide,      *)
(* which is what the "AUD1" and 0x01 prefixes are for.                     *)
(***************************************************************************)
EXTENDS AuditLedger

LeafDigest(e) == [leaf |-> e.leaf, children |-> <<>>]

\* node_hash
NodeDigest(l, r) == [leaf |-> <<>>, children |-> <<l, r>>]

Leaves(log) == [i \in 1..Len(log) |-> LeafDigest(log[i])]

\* Mutant: an odd last node moves up as it is.
ParentLevelPromotes(level) ==
  [i \in 1..((Len(level) + 1) \div 2) |->
     IF 2 * i <= Len(level) THEN NodeDigest(level[2 * i - 1], level[2 * i]) ELSE level[2 * i - 1]]

\* Mutant: an odd last node is dropped.
ParentLevelDrops(level) ==
  [i \in 1..(Len(level) \div 2) |-> NodeDigest(level[2 * i - 1], level[2 * i])]

\* One pass of the loop of merkle_root: pairs, an odd last node with itself.
ParentLevel(level) ==
  [i \in 1..((Len(level) + 1) \div 2) |->
     NodeDigest(level[2 * i - 1],
                IF 2 * i <= Len(level) THEN level[2 * i] ELSE level[2 * i - 1])]

\* The levels the loop of merkle_root goes through: after k rounds, from the leaves.
Rounds(leaves) ==
  LET level[k \in Nat] == IF k = 0 THEN leaves ELSE ParentLevel(level[k - 1])
  IN  level

\* The rounds of the loop: while the level has more than one node.
Height(leaves) ==
  CHOOSE h \in 0..Len(leaves) :
    /\ Len(Rounds(leaves)[h]) <= 1
    /\ \A k \in 0..Len(leaves) : k < h => Len(Rounds(leaves)[k]) > 1

\* merkle_root of a non-empty log.
MerkleRoot(leaves) == Rounds(leaves)[Height(leaves)][1]

\* The sibling of position i (1-based) in a level, and the side it is on.
SiblingOf(level, i) ==
  IF i % 2 = 1
  THEN [side |-> "R", digest |-> IF i + 1 <= Len(level) THEN level[i + 1] ELSE level[i]]
  ELSE [side |-> "L", digest |-> level[i - 1]]

\* inclusion_proof, its loop from position i: the level, the position in it and the
\* siblings, after k rounds.
Climb(leaves, i) ==
  LET at[k \in Nat] ==
        IF k = 0 THEN [level |-> leaves, i |-> i, siblings |-> <<>>]
        ELSE LET c == at[k - 1]
             IN  [level |-> ParentLevel(c.level), i |-> (c.i + 1) \div 2,
                  siblings |-> Append(c.siblings, SiblingOf(c.level, c.i))]
  IN  at

\* AuditLog.index: a later entry with the same seq replaces an earlier one.
IndexOf(log, seq) ==
  CHOOSE i \in 1..Len(log) :
    log[i].seq = seq /\ \A j \in 1..Len(log) : log[j].seq = seq => j <= i

\* AuditLog::inclusion_proof(seq) of an entry that is in the index.
InclusionProof(log, seq) ==
  LET i == IndexOf(log, seq)
  IN  [seq |-> seq, leaf |-> LeafDigest(log[i]),
       siblings |-> Climb(Leaves(log), i)[Height(Leaves(log))].siblings,
       root |-> MerkleRoot(Leaves(log))]

\* AuditLog::inclusion_proofs: every level once, then every position's path.
Levels(leaves) == [k \in 1..(Height(leaves) + 1) |-> Rounds(leaves)[k - 1]]

\* The position of entry i in the level k rounds up.
PositionOf(i) ==
  LET position[k \in Nat] == IF k = 0 THEN i ELSE (position[k - 1] + 1) \div 2
  IN  position

InclusionProofs(log) ==
  LET levels == Levels(Leaves(log))
  IN  [i \in 1..Len(log) |->
         [seq |-> log[i].seq, leaf |-> LeafDigest(log[i]),
          siblings |-> [k \in 1..(Len(levels) - 1) |-> SiblingOf(levels[k], PositionOf(i)[k - 1])],
          root |-> levels[Len(levels)][1]]]

\* verify_inclusion, its loop: the digest after k siblings.
Joined(leaf, siblings) ==
  LET cur[k \in 0..Len(siblings)] ==
        IF k = 0 THEN leaf
        ELSE IF siblings[k].side = "L" THEN NodeDigest(siblings[k].digest, cur[k - 1])
             ELSE NodeDigest(cur[k - 1], siblings[k].digest)
  IN  cur

\* AuditLog::verify_inclusion
VerifyInclusion(proof) == Joined(proof.leaf, proof.siblings)[Len(proof.siblings)] = proof.root

-----------------------------------------------------------------------------
\* Every proof of an export verifies against the root of the ledger, also for a
\* ledger reloaded with gaps, of any length, odd or even at any level; and while
\* the chain of this run is intact, the proof endpoint, which looks an entry up by
\* its sequence number, gives the very proof the export gives.
ExportVerifies ==
  mem # <<>> =>
    LET proofs == InclusionProofs(mem)
    IN  \A i \in 1..Len(mem) :
          /\ VerifyInclusion(proofs[i]) /\ proofs[i].root = MerkleRoot(Leaves(mem))
          /\ chainOk => InclusionProof(mem, mem[i].seq) = proofs[i]

\* The root pins the history: duplicating the odd last node never lets two
\* different histories of the ledger share a root.
RootPinsHistory ==
  \A m, n \in 1..Len(mem) :
    MerkleRoot(Leaves(SubSeq(mem, 1, m))) = MerkleRoot(Leaves(SubSeq(mem, 1, n))) => m = n

=============================================================================
