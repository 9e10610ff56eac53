------------------------------ MODULE QdsNotary ------------------------------
(***************************************************************************)
(* Trent, the notary of the teleportation signatures (qds/src/lib.rs), and *)
(* his replay trap (qds/src/temporal.rs), as operators on a notary record. *)
(*                                                                         *)
(* A key stands for the two correlation tables and the parameters they     *)
(* were drawn for.  Correction bits are a function of the message and the  *)
(* tables, so they are modelled as that pair: the measurement statistics   *)
(* match exactly when both are the ones claimed (at tolerance 0, without   *)
(* the 4^-positions luck of a guess).  Hashes never collide: a chain link  *)
(* is the sequence of the (window, entropy) pairs hashed into it, a tag is *)
(* the record it hashes.  Entropy is a small set because Bell outcomes may *)
(* repeat: qds_sign lets its caller fix the seed of the generator.         *)
(***************************************************************************)
EXTENDS Integers, Sequences, FiniteSets, SequencesExt

CONSTANTS
  Message,    \* what may be signed
  Entropy,    \* the outcomes of the Bell measurements of one signing session
  Horizon     \* VALIDITY_HORIZON

ASSUME NotaryAssumption == Horizon \in Nat \ {0}

\* Entropy of mint_temporal_for when no session was signed yet.
TableEntropy == "tables"

Genesis == <<>>
Link(prev, window, entropy) == Append(prev, <<window, entropy>>)

\* Trent::setup
NewTrent(key) ==
  [key |-> key, used |-> {}, nextNonce |-> 1, window |-> 0,
   history |-> <<Genesis>>, consumed |-> {}, frontier |-> TableEntropy]

\* issue_nonce
IssueNonce(t) == [t EXCEPT !.nextNonce = @ + 1]

Tag(bits, nonce, key, window, entropy) ==
  [bits |-> bits, nonce |-> nonce, key |-> key, window |-> window, entropy |-> entropy]

\* bind_signature, with the link expected_chain_link gives for its predecessor.
Signature(bits, nonce, key, window, entropy, prev) ==
  [bits |-> bits, nonce |-> nonce, key |-> key,
   window |-> window, entropy |-> entropy, prev |-> prev,
   link |-> Link(prev, window, entropy),
   tag |-> Tag(bits, nonce, key, window, entropy)]

\* sign, its signature: at the window after the frontier, on top of the chain.
NextSignature(t, msg, entropy) ==
  Signature(<<msg, t.key>>, t.nextNonce, t.key, t.window + 1, entropy, Last(t.history))

\* sign, what it leaves of the notary.
Signed(t, entropy) ==
  [IssueNonce(t) EXCEPT
     !.window = @ + 1,
     !.frontier = entropy,
     !.history = Append(@, Link(Last(@), t.window + 1, entropy))]

\* mint_temporal_for under the next nonce: the received bits bound to the
\* frontier window, whose link is recomputed from the link before it.
Rebinding(t, bits) ==
  Signature(bits, t.nextNonce, t.key, t.window, t.frontier,
            IF Len(t.history) >= 2 THEN t.history[Len(t.history) - 1] ELSE Genesis)

\* signature_tag = signature_tag_hex
TagOk(sig) == sig.tag = Tag(sig.bits, sig.nonce, sig.key, sig.window, sig.entropy)

StructurallySound(sig) == sig.link = Link(sig.prev, sig.window, sig.entropy)

LocallyMinted(t, sig) == \E i \in 1..Len(t.history) : t.history[i] = sig.link

\* Mutant: any window behind the clock is a replay.
TrapCheckStrictClock(t, sig) ==
  /\ TagOk(sig)
  /\ StructurallySound(sig)
  /\ LocallyMinted(t, sig) \/ sig.window > t.window
  /\ sig.window \notin t.consumed
  /\ sig.window >= t.window
  /\ t.window - sig.window < Horizon

\* trap_check.  (The subtraction saturates at 0: below 0 it is < Horizon too.)
TrapCheck(t, sig) ==
  /\ TagOk(sig)
  /\ StructurallySound(sig)
  /\ LocallyMinted(t, sig) \/ sig.window > t.window
  /\ sig.window \notin t.consumed
  /\ t.window - sig.window < Horizon

\* Mutant: documents expire like wire signatures.
TrapCheckDocumentExpires(t, sig) ==
  /\ TagOk(sig)
  /\ StructurallySound(sig)
  /\ LocallyMinted(t, sig)
  /\ t.window - sig.window < Horizon

\* trap_check_document
TrapCheckDocument(t, sig) ==
  /\ TagOk(sig)
  /\ StructurallySound(sig)
  /\ LocallyMinted(t, sig)

StatisticsMatch(t, msg, sig) == sig.bits = <<msg, t.key>>

\* verify at tolerance 0: its verdict.
Accepts(t, msg, sig) ==
  /\ sig.key = t.key
  /\ TrapCheck(t, sig)
  /\ sig.nonce \notin t.used
  /\ StatisticsMatch(t, msg, sig)

\* Mutant: the nonce is consumed, the window is not.
AcceptedNonceOnly(t, sig) == [t EXCEPT !.used = @ \cup {sig.nonce}]

\* verify: what an acceptance leaves of the notary.
Accepted(t, sig) ==
  [t EXCEPT !.consumed = @ \cup {sig.window}, !.used = @ \cup {sig.nonce}]

\* verify: what it leaves of the notary, whatever the verdict.
Verified(t, msg, sig) == IF Accepts(t, msg, sig) THEN Accepted(t, sig) ELSE t

\* verify_transferability at tolerance 0; it leaves the notary as it is.
Transferable(t, msg, sig) ==
  /\ sig.key = t.key
  /\ TrapCheckDocument(t, sig)
  /\ StatisticsMatch(t, msg, sig)

\* replay_snapshot
ReplaySnapshot(t) ==
  [used |-> t.used, nextNonce |-> t.nextNonce, window |-> t.window,
   history |-> t.history, consumed |-> t.consumed, frontier |-> t.frontier]

\* Mutant: the nonce counter starts over.
RestoredNonceOne(t, snap) ==
  [t EXCEPT !.used = snap.used, !.window = snap.window,
            !.history = snap.history, !.consumed = snap.consumed,
            !.frontier = snap.frontier]

\* replay_restore
Restored(t, snap) ==
  [t EXCEPT !.used = snap.used, !.nextNonce = snap.nextNonce, !.window = snap.window,
            !.history = snap.history, !.consumed = snap.consumed,
            !.frontier = snap.frontier]

-----------------------------------------------------------------------------
(* The types of the records above, for a set of keys. *)
Outcome == Entropy \cup {TableEntropy}
ChainLink == Seq(Nat \X Outcome)
History == Seq(ChainLink) \ {<<>>}

Notary(Keys) ==
  [key : Keys, used : SUBSET Nat, nextNonce : Nat, window : Nat,
   history : History, consumed : SUBSET Nat, frontier : Outcome]

Snapshot ==
  [used : SUBSET Nat, nextNonce : Nat, window : Nat,
   history : History, consumed : SUBSET Nat, frontier : Outcome]

Signatures(Keys) ==
  [bits : Message \X Keys, nonce : Nat, key : Keys,
   window : Nat, entropy : Outcome, prev : ChainLink, link : ChainLink,
   tag : [bits : Message \X Keys, nonce : Nat, key : Keys, window : Nat, entropy : Outcome]]
=============================================================================
