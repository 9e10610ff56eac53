------------------------------ MODULE QdsServer ------------------------------
(***************************************************************************)
(* The server around the notary: QdsState with the file it persists the    *)
(* replay trap to (server/src/qds_state.rs), the QDS laboratory endpoints  *)
(* (server/src/qds_api.rs) and the sealing and opening of documents under  *)
(* the notary's signature (server/src/doc_api.rs, server/src/qds_keys.rs). *)
(* Every endpoint works under the lock on state.qds, so a request is one   *)
(* step; the attack battery reads the last signature under an earlier      *)
(* acquisition of that lock, so it is two.                                 *)
(*                                                                         *)
(* A response leaves after its request, so a process that stops during one *)
(* loses what nobody has seen: it is the stop before that request.         *)
(***************************************************************************)
EXTENDS QdsNotary

CONSTANTS
  Laptops,      \* servers, each with a disk of its own
  Seedings,     \* how TRENT_SEED may be set: see Seeding
  Params,       \* qubit_count and lambda, as one value
  DefaultParams,
  PersistMayFail, \* whether a write of the snapshot may fail
  RingSize,     \* members of a consensus ring
  MaxWindow,    \* how far a clock may go (bounds the model)
  MaxBoots      \* how many notaries are set up beyond the first (bounds the model)

\* TRENT_SEED is a number, is not set, or is set to what is not a number.
Seeding == {"pinned", "unset", "garbled"}

ASSUME ServerAssumption ==
  /\ Seedings \subseteq Seeding
  /\ DefaultParams \in Params
  /\ PersistMayFail \in BOOLEAN
  /\ RingSize \in Nat
  /\ {"noise", "few", "many"} \cap Message = {}  \* what flipped bits do not spell

VARIABLES
  seeding,    \* TRENT_SEED of the deployment
  trent,      \* the notary of each laptop
  disk,       \* the replay-state file of each laptop: a set of at most one
  last,       \* QdsHolder.last_signature: a set of at most one [msg, sig]
  battery,    \* the last signature as a running battery has read it
  lab,        \* signatures accepted and handed out by qds_sign: [by, msg, sig]
  docs,       \* signatures in sealed documents: [by, msg, sig]
  boots       \* notaries set up since the start

vars == <<seeding, trent, disk, last, battery, lab, docs, boots>>

\* QdsState::new, the tables: the seed's, or fresh ones.
Key(params, boot) == <<IF seeding = "pinned" THEN 0 ELSE boot + 1, params>>

\* QdsState::new with restore_replay_state: the file counts only with a seed set.
Started(n, params, boot) ==
  LET fresh == NewTrent(Key(params, boot))
  IN  IF seeding # "unset" /\ disk[n] # {} THEN Restored(fresh, CHOOSE snap \in disk[n] : TRUE)
                                           ELSE fresh

\* persist_replay_state; a failed write leaves the old file and goes unnoticed.
Persist(n, t) ==
  \/ disk' = [disk EXCEPT ![n] = {ReplaySnapshot(t)}]
  \/ PersistMayFail /\ UNCHANGED disk

Init ==
  /\ seeding \in Seedings
  /\ trent = [n \in Laptops |-> NewTrent(Key(DefaultParams, 0))]
  /\ disk = [n \in Laptops |-> {}]
  /\ last = [n \in Laptops |-> {}] /\ battery = [n \in Laptops |-> {}]
  /\ lab = {} /\ docs = {}
  /\ boots = 0

\* Mutant: what is persisted was taken before the verification.
LabSignPersistsEarly(n, msg, entropy) ==
  LET sig == NextSignature(trent[n], msg, entropy)
      t == Verified(Signed(trent[n], entropy), msg, sig)
  IN  /\ trent[n].window < MaxWindow
      /\ trent' = [trent EXCEPT ![n] = t]
      /\ Persist(n, Signed(trent[n], entropy))
      /\ last' = [last EXCEPT ![n] = {[msg |-> msg, sig |-> sig]}]
      /\ lab' = lab \cup {[by |-> n, msg |-> msg, sig |-> sig]}
      /\ UNCHANGED <<seeding, battery, docs, boots>>

\* qds_sign: sign, verify, persist, remember.
LabSign(n, msg, entropy) ==
  LET sig == NextSignature(trent[n], msg, entropy)
      t == Verified(Signed(trent[n], entropy), msg, sig)
  IN  /\ trent[n].window < MaxWindow
      /\ trent' = [trent EXCEPT ![n] = t]
      /\ Persist(n, t)
      /\ last' = [last EXCEPT ![n] = {[msg |-> msg, sig |-> sig]}]
      /\ lab' = lab \cup {[by |-> n, msg |-> msg, sig |-> sig]}
      /\ UNCHANGED <<seeding, battery, docs, boots>>

\* doc_seal, peer_send: sign_document_qds signs and verifies; nothing is persisted.
SealDocument(n, msg, entropy) ==
  LET sig == NextSignature(trent[n], msg, entropy)
  IN  /\ trent[n].window < MaxWindow
      /\ trent' = [trent EXCEPT ![n] = Verified(Signed(@, entropy), msg, sig)]
      /\ docs' = docs \cup {[by |-> n, msg |-> msg, sig |-> sig]}
      /\ UNCHANGED <<seeding, disk, last, battery, lab, boots>>

\* doc_open, verify_document_qds: a document opens on a laptop iff this holds.
Opens(n, doc) == Transferable(trent[n], doc.msg, doc.sig)

\* qds_attacks, its first lock section.
ReadLast(n) ==
  /\ last[n] # {} /\ battery[n] = {}
  /\ battery' = [battery EXCEPT ![n] = last[n]]
  /\ UNCHANGED <<seeding, trent, disk, last, lab, docs, boots>>

\* qds_attacks, its second lock section.  Forgery, impersonation and the
\* unauthorized verification take a nonce each and fail on a missing binding or
\* its tag; the replay is verified as it is; a fresh session is signed and the
\* received bits, disturbed or not, are re-bound to it; the forged timestamp
\* takes a last nonce and fails on its link.  An acceptance persists.
RunBattery(n, entropy, disturbed) ==
  \E genuine \in battery[n] :
    LET asked == IssueNonce(IssueNonce(IssueNonce(trent[n])))
        replayed == Verified(asked, genuine.msg, genuine.sig)
        session == Signed(replayed, entropy)
        received == [Rebinding(session, IF disturbed THEN <<"noise", genuine.sig.key>>
                                                     ELSE genuine.sig.bits)
                       EXCEPT !.key = session.key]
        bound == IssueNonce(session)
        delivered == Verified(bound, genuine.msg, received)
    IN  /\ trent[n].window < MaxWindow
        /\ trent' = [trent EXCEPT ![n] = IssueNonce(delivered)]
        /\ IF delivered # bound THEN Persist(n, delivered)
           ELSE IF replayed # asked THEN Persist(n, replayed)
           ELSE UNCHANGED disk
        /\ battery' = [battery EXCEPT ![n] = {}]
        /\ UNCHANGED <<seeding, last, lab, docs, boots>>

\* What a member's link does to the copy it brings: nothing, as it carries no
\* noise; or noise that spares every bit, flips a share of them within the
\* tolerance of the request, or one beyond it.
LinkNoise == {"none", "spares", "few", "many"}

\* disturbed_bits
DisturbedBits(sig, noise) ==
  IF noise \in {"few", "many"} THEN <<noise, sig.key>> ELSE sig.bits

\* Mutant: the notary does not re-bind what came over a noisy link.
MemberCopyUnbound(t, sig, noise) == [sig EXCEPT !.bits = DisturbedBits(sig, noise)]

\* run_ring, what a member receives: bits that came over a noisy link are re-bound
\* at the frontier, under the nonce of the signature.
MemberCopy(t, sig, noise) ==
  IF noise = "none" THEN sig
  ELSE [Rebinding(t, DisturbedBits(sig, noise))
          EXCEPT !.nonce = sig.nonce, !.tag.nonce = sig.nonce, !.key = sig.key]

\* verify_transferability with the tolerance of the request: "ACC1" without a
\* mismatch, "ACC0" up to the tolerance.  It leaves the notary as it is.
MemberVerdict(t, msg, sig) ==
  IF Transferable(t, msg, sig) THEN "ACC1"
  ELSE IF sig.key = t.key /\ TrapCheckDocument(t, sig) /\ sig.bits = <<"few", t.key>>
  THEN "ACC0" ELSE "REJ"

\* run_ring: the members that reach one of the verdicts.
Members(t, remembered, links, verdicts) ==
  { i \in DOMAIN links :
      MemberVerdict(t, remembered.msg, MemberCopy(t, remembered.sig, links[i])) \in verdicts }

\* run_ring, the gate to unlock: k members accept.
QuorumOk(t, remembered, links, k) ==
  Cardinality(Members(t, remembered, links, {"ACC1", "ACC0"})) >= k

\* run_ring, the gate to forward: k members vouch for the transfer.
TransferGrade(t, remembered, links, k) ==
  Cardinality(Members(t, remembered, links, {"ACC1"})) >= k

\* qds_setup: a new notary, its replay state restored from the file.
Setup(n, params) ==
  /\ boots < MaxBoots
  /\ trent' = [trent EXCEPT ![n] = Started(n, params, boots + 1)]
  /\ last' = [last EXCEPT ![n] = {}]
  /\ boots' = boots + 1
  /\ UNCHANGED <<seeding, disk, battery, lab, docs>>

\* The process stops and main() starts it again with the default parameters.
Restart(n) ==
  /\ boots < MaxBoots
  /\ trent' = [trent EXCEPT ![n] = Started(n, DefaultParams, boots + 1)]
  /\ last' = [last EXCEPT ![n] = {}]
  /\ battery' = [battery EXCEPT ![n] = {}]
  /\ boots' = boots + 1
  /\ UNCHANGED <<seeding, disk, lab, docs>>

Next ==
  \E n \in Laptops :
    \/ \E msg \in Message, entropy \in Entropy :
         LabSign(n, msg, entropy) \/ SealDocument(n, msg, entropy)
    \/ ReadLast(n)
    \/ \E entropy \in Entropy, disturbed \in BOOLEAN : RunBattery(n, entropy, disturbed)
    \/ \E params \in Params : Setup(n, params)
    \/ Restart(n)

Spec == Init /\ [][Next]_vars

-----------------------------------------------------------------------------
\* "Always 1-ACC for the genuine signer": whatever was persisted, lost or
\* restored, the next session of every notary is accepted by its own check.
NextSessionAccepted ==
  \A n \in Laptops : \A msg \in Message, entropy \in Entropy :
    Accepts(Signed(trent[n], entropy), msg, NextSignature(trent[n], msg, entropy))

\* consensus_ring takes the last signature, which qds_sign's own check has already
\* accepted once, before any number of independent members, in a process that has
\* signed, sealed or attacked since.  It unlocks exactly if at least k copies were
\* disturbed within the tolerance or not at all, and is of transfer grade exactly
\* if at least k were not disturbed at all: "a degraded channel can unlock locally
\* while refusing transfer".  (k may exceed the ring: it is 3 when not given.)
RingVerdictExact ==
  \A n \in Laptops : \A r \in last[n] :
    \A links \in [1..RingSize -> LinkNoise], k \in 1..(RingSize + 1) :
      LET lost(kinds) == Cardinality({ i \in 1..RingSize : links[i] \in kinds })
      IN  /\ QuorumOk(trent[n], r, links, k) <=> lost({"many"}) <= RingSize - k
          /\ TransferGrade(trent[n], r, links, k) <=> lost({"few", "many"}) <= RingSize - k

\* "A restart must not re-arm captured signatures" (qds_state.rs): no notary of
\* the laptop, nor one set up after it, accepts a laboratory signature again;
\* nor, while the first notary runs, the signature of a sealed document, which
\* was accepted once when it was issued.
SpentSignaturesStayDead ==
  \A s \in lab \cup { d \in docs : boots = 0 } :
    \A msg \in Message : ~Accepts(trent[s.by], msg, s.sig)

\* A document whose signature the snapshot covers opens, at any age and after
\* any number of restarts and sessions, whenever its laptop runs the key it was
\* sealed under - and only for the content it was sealed with.  While the first
\* notary runs, so does every other document.
CoveredDocumentsOpen ==
  \A d \in docs :
    LET t == trent[d.by]
        covered == \E snap \in disk[d.by] :
                     \E i \in 1..Len(snap.history) : snap.history[i] = d.sig.link
    IN  d.sig.key = t.key /\ (covered \/ boots = 0)
        => \A msg \in Message : Transferable(t, msg, d.sig) <=> msg = d.msg

\* "It MUST re-verify years after minting, every time the document is opened"
\* (trap_check_document): every document opens where it was sealed.
DocumentsOpen == \A d \in docs : Opens(d.by, d)

=============================================================================
