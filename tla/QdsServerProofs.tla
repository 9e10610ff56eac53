--------------------------- MODULE QdsServerProofs ---------------------------
(***************************************************************************)
(* Proofs about QdsServer: as long as no write of the snapshot fails, the  *)
(* next session of a notary is always accepted by its own verification,    *)
(* whatever was sealed, attacked, set up anew or restarted before.         *)
(***************************************************************************)
EXTENDS QdsServer, SequenceTheorems, FiniteSetTheorems, TLAPS

Keys == Nat \X Params
Remembered == [msg : Message, sig : Signatures(Keys)]

\* A notary's registries lie behind its counters: nothing was consumed that it
\* has not minted, so nothing it mints next is consumed already.
Sound(t) ==
  /\ t \in Notary(Keys)
  /\ \A w \in t.consumed : w <= t.window
  /\ \A k \in t.used : k < t.nextNonce

\* The same of a snapshot.
SoundSnapshot(snap) ==
  /\ snap \in Snapshot
  /\ \A w \in snap.consumed : w <= snap.window
  /\ \A k \in snap.used : k < snap.nextNonce

\* A signature that counters have left behind.
Behind(sig, window, nextNonce) ==
  sig.window \in Nat /\ sig.nonce \in Nat /\ sig.window <= window /\ sig.nonce < nextNonce

-----------------------------------------------------------------------------
\* Issuing a nonce keeps the registries behind the counters.
LEMMA SoundIssue ==
  ASSUME NEW t, Sound(t)
  PROVE  /\ Sound(IssueNonce(t))
         /\ IssueNonce(t).key = t.key /\ IssueNonce(t).window = t.window
         /\ IssueNonce(t).nextNonce = t.nextNonce + 1
BY DEF Sound, Notary, IssueNonce

\* A chain link extended by a session is a chain link.
LEMMA LinkType ==
  ASSUME NEW prev \in ChainLink, NEW window \in Nat, NEW entropy \in Outcome
  PROVE  Link(prev, window, entropy) \in ChainLink
BY DEF Link, ChainLink

\* A history extended by a link is a history, and the link is its last one.
LEMMA HistoryGrows ==
  ASSUME NEW h \in History, NEW link \in ChainLink
  PROVE  /\ Append(h, link) \in History
         /\ Len(Append(h, link)) \in 1..Len(Append(h, link))
         /\ Append(h, link)[Len(Append(h, link))] = link
<1>1. h \in Seq(ChainLink)
  BY DEF History
<1>2. Append(h, link) \in Seq(ChainLink) /\ Len(Append(h, link)) = Len(h) + 1
  BY <1>1
<1>3. Append(h, link) # <<>>
  <2>1. Len(Append(h, link)) # 0
    BY <1>1, <1>2
  <2>2. Len(<<>>) = 0
    OBVIOUS
  <2>3. QED
    BY <2>1, <2>2
<1>4. Append(h, link)[Len(h) + 1] = link
  BY <1>1
<1>5. QED
  BY <1>1, <1>2, <1>3, <1>4 DEF History

\* The last link of a history is a chain link.
LEMMA LastLink == ASSUME NEW h \in History PROVE Last(h) \in ChainLink
<1>1. h \in Seq(ChainLink) /\ h # <<>>
  BY DEF History
<1>2. Len(h) \in 1..Len(h)
  BY <1>1
<1>3. QED
  BY <1>1, <1>2 DEF Last

\* Signing advances the clock and the nonce by one and consumes nothing.
LEMMA SignedFields ==
  ASSUME NEW t \in Notary(Keys), NEW entropy \in Entropy
  PROVE  /\ Signed(t, entropy) \in Notary(Keys)
         /\ Signed(t, entropy).key = t.key
         /\ Signed(t, entropy).window = t.window + 1
         /\ Signed(t, entropy).nextNonce = t.nextNonce + 1
         /\ Signed(t, entropy).consumed = t.consumed
         /\ Signed(t, entropy).used = t.used
         /\ Signed(t, entropy).frontier = entropy
         /\ Signed(t, entropy).history
              = Append(t.history, Link(Last(t.history), t.window + 1, entropy))
<1> DEFINE u == IssueNonce(t)
<1> DEFINE h == Append(t.history, Link(Last(t.history), t.window + 1, entropy))
<1>1. t.history \in History /\ t.window \in Nat /\ t.nextNonce \in Nat
  BY DEF Notary
<1>2. entropy \in Outcome
  BY DEF Outcome
<1>3. h \in History
  <2>1. Last(t.history) \in ChainLink
    BY <1>1, LastLink
  <2>2. Link(Last(t.history), t.window + 1, entropy) \in ChainLink
    BY <1>1, <1>2, <2>1, LinkType
  <2>3. QED
    BY <1>1, <2>2, HistoryGrows
<1>4. /\ u \in Notary(Keys) /\ u.window = t.window /\ u.key = t.key
      /\ u.history = t.history /\ u.consumed = t.consumed /\ u.used = t.used
      /\ u.nextNonce = t.nextNonce + 1
  BY <1>1 DEF IssueNonce, Notary
<1>5. Signed(t, entropy) = [u EXCEPT !.window = t.window + 1, !.frontier = entropy, !.history = h]
  BY <1>1, <1>4 DEF Signed, Notary
<1>6. /\ Signed(t, entropy) \in Notary(Keys)
      /\ Signed(t, entropy).key = t.key
      /\ Signed(t, entropy).window = t.window + 1
      /\ Signed(t, entropy).nextNonce = t.nextNonce + 1
      /\ Signed(t, entropy).consumed = t.consumed
      /\ Signed(t, entropy).used = t.used
      /\ Signed(t, entropy).history = h
      /\ Signed(t, entropy).frontier = entropy
  <2> HIDE DEF u, h
  <2>1. DOMAIN u = {"key", "used", "nextNonce", "window", "history", "consumed", "frontier"}
    BY <1>4 DEF Notary
  <2>2. /\ Signed(t, entropy).key = u.key
        /\ Signed(t, entropy).window = t.window + 1
        /\ Signed(t, entropy).nextNonce = u.nextNonce
        /\ Signed(t, entropy).consumed = u.consumed
        /\ Signed(t, entropy).used = u.used
        /\ Signed(t, entropy).history = h
        /\ Signed(t, entropy).frontier = entropy
    BY <1>5, <2>1
  <2>3. Signed(t, entropy) \in Notary(Keys)
    <3> DEFINE v == [u EXCEPT !.window = t.window + 1]
               w == [v EXCEPT !.frontier = entropy]
    <3>1. v \in Notary(Keys)
      BY <1>1, <1>4 DEF Notary
    <3>2. w \in Notary(Keys)
      <4> HIDE DEF v
      <4>1. QED
        BY <1>2, <3>1 DEF Notary
    <3>3. [w EXCEPT !.history = h] \in Notary(Keys)
      <4> HIDE DEF w
      <4>1. QED
        BY <1>3, <3>2 DEF Notary
    <3>4. QED
      BY <1>5, <3>3
  <2>4. QED
    BY <1>4, <2>2, <2>3
<1>7. QED
  BY <1>6

\* Signing leaves the registries behind the counters.
LEMMA SoundSigned ==
  ASSUME NEW t, Sound(t), NEW entropy \in Entropy
  PROVE  /\ Sound(Signed(t, entropy))
         /\ Signed(t, entropy).key = t.key
         /\ Signed(t, entropy).window = t.window + 1
         /\ Signed(t, entropy).nextNonce = t.nextNonce + 1
         /\ Signed(t, entropy).consumed = t.consumed
         /\ Signed(t, entropy).used = t.used
         /\ Signed(t, entropy).history
              = Append(t.history, Link(Last(t.history), t.window + 1, entropy))
<1> DEFINE u == Signed(t, entropy)
<1>1. t \in Notary(Keys)
  BY DEF Sound
<1>2. /\ u \in Notary(Keys) /\ u.key = t.key /\ u.window = t.window + 1
      /\ u.nextNonce = t.nextNonce + 1 /\ u.consumed = t.consumed /\ u.used = t.used
      /\ u.history = Append(t.history, Link(Last(t.history), t.window + 1, entropy))
  BY <1>1, SignedFields
<1> HIDE DEF u
<1>3. \A w \in t.consumed : w \in Nat /\ w <= t.window + 1
  BY <1>1 DEF Sound, Notary
<1>4. \A k \in t.used : k \in Nat /\ k < t.nextNonce + 1
  BY <1>1 DEF Sound, Notary
<1>5. Sound(u)
  BY <1>2, <1>3, <1>4 DEF Sound
<1>6. QED
  BY <1>2, <1>5 DEF u

\* The signature of the next session carries the counters it is signed at.
LEMMA NextSignatureType ==
  ASSUME NEW t \in Notary(Keys), NEW msg \in Message, NEW entropy \in Entropy
  PROVE  /\ NextSignature(t, msg, entropy) \in Signatures(Keys)
         /\ NextSignature(t, msg, entropy).key = t.key
         /\ NextSignature(t, msg, entropy).window = t.window + 1
         /\ NextSignature(t, msg, entropy).nonce = t.nextNonce
<1>1. t.key \in Keys /\ t.history \in History /\ t.window + 1 \in Nat /\ t.nextNonce \in Nat
  BY DEF Notary
<1>2. entropy \in Outcome
  BY DEF Outcome
<1>3. Last(t.history) \in ChainLink
  BY <1>1, LastLink
<1>4. Link(Last(t.history), t.window + 1, entropy) \in ChainLink
  BY <1>1, <1>2, <1>3, LinkType
<1>5. <<msg, t.key>> \in Message \X Keys
  BY <1>1
<1>6. QED
  BY <1>1, <1>2, <1>3, <1>4, <1>5 DEF NextSignature, Signature, Signatures, Tag

\* A notary whose registries lie behind its counters accepts its next session.
LEMMA SoundAcceptsNext ==
  ASSUME NEW t, Sound(t), NEW msg \in Message, NEW entropy \in Entropy
  PROVE  Accepts(Signed(t, entropy), msg, NextSignature(t, msg, entropy))
<1> DEFINE s == Signed(t, entropy)
           sig == NextSignature(t, msg, entropy)
           link == Link(Last(t.history), t.window + 1, entropy)
<1>1. t.history \in History /\ t.window \in Nat /\ t.nextNonce \in Nat
  BY DEF Sound, Notary
<1>2. /\ s.key = t.key /\ s.window = t.window + 1 /\ s.consumed = t.consumed
      /\ s.used = t.used /\ s.history = Append(t.history, link)
  BY SoundSigned
<1>3. /\ sig.key = t.key /\ sig.window = t.window + 1 /\ sig.nonce = t.nextNonce
      /\ sig.link = link /\ sig.bits = <<msg, t.key>>
      /\ TagOk(sig) /\ StructurallySound(sig)
  BY DEF NextSignature, Signature, TagOk, StructurallySound, Tag
<1> HIDE DEF s, sig
<1>4. link \in ChainLink
  BY <1>1, LastLink, LinkType DEF Outcome
<1>5. LocallyMinted(s, sig)
  BY <1>1, <1>2, <1>3, <1>4, HistoryGrows DEF LocallyMinted
<1>6. sig.window \notin s.consumed /\ sig.nonce \notin s.used
  BY <1>1, <1>2, <1>3 DEF Sound
<1>7. s.window - sig.window < Horizon
  BY <1>1, <1>2, <1>3, NotaryAssumption
<1>8. TrapCheck(s, sig)
  BY <1>3, <1>5, <1>6, <1>7 DEF TrapCheck
<1>9. Accepts(s, msg, sig)
  BY <1>2, <1>3, <1>6, <1>8 DEF Accepts, StatisticsMatch
<1>10. QED
  BY <1>9 DEF s, sig

\* verify keeps the registries behind the counters if the signature is behind
\* them, or was made under another key and is refused.
LEMMA SoundVerified ==
  ASSUME NEW t, Sound(t), NEW msg, NEW sig,
         sig.key = t.key => Behind(sig, t.window, t.nextNonce)
  PROVE  /\ Sound(Verified(t, msg, sig))
         /\ Verified(t, msg, sig).key = t.key
         /\ Verified(t, msg, sig).window = t.window
         /\ Verified(t, msg, sig).nextNonce = t.nextNonce
<1>1. CASE ~Accepts(t, msg, sig)
  BY <1>1 DEF Verified
<1>2. CASE Accepts(t, msg, sig)
  <2>1. Behind(sig, t.window, t.nextNonce)
    BY <1>2 DEF Accepts
  <2>2. Verified(t, msg, sig) = Accepted(t, sig)
    BY <1>2 DEF Verified
  <2>3. /\ Accepted(t, sig) \in Notary(Keys)
        /\ Accepted(t, sig).key = t.key
        /\ Accepted(t, sig).window = t.window
        /\ Accepted(t, sig).nextNonce = t.nextNonce
        /\ Accepted(t, sig).consumed = t.consumed \cup {sig.window}
        /\ Accepted(t, sig).used = t.used \cup {sig.nonce}
    BY <2>1 DEF Sound, Notary, Accepted, Behind
  <2>4. QED
    BY <2>1, <2>2, <2>3 DEF Sound, Behind
<1>3. QED
  BY <1>1, <1>2

\* Signing and verifying what was signed, as qds_sign and doc_seal do.
LEMMA SoundSession ==
  ASSUME NEW t, Sound(t), NEW msg \in Message, NEW entropy \in Entropy
  PROVE  LET sig == NextSignature(t, msg, entropy)
             u == Verified(Signed(t, entropy), msg, sig)
         IN  /\ Sound(u) /\ u.key = t.key
             /\ u.window = t.window + 1 /\ u.nextNonce = t.nextNonce + 1
             /\ sig \in Signatures(Keys) /\ sig.key = t.key
             /\ Behind(sig, u.window, u.nextNonce)
<1> DEFINE sig == NextSignature(t, msg, entropy)
           s == Signed(t, entropy)
<1>1. t.window \in Nat /\ t.nextNonce \in Nat
  BY DEF Sound, Notary
<1>2. /\ Sound(s) /\ s.key = t.key /\ s.window = t.window + 1
      /\ s.nextNonce = t.nextNonce + 1
  BY SoundSigned
<1>3. /\ sig \in Signatures(Keys) /\ sig.key = t.key
      /\ sig.window = t.window + 1 /\ sig.nonce = t.nextNonce
  BY NextSignatureType DEF Sound
<1> HIDE DEF s, sig
<1>4. Behind(sig, s.window, s.nextNonce)
  BY <1>1, <1>2, <1>3 DEF Behind
<1>5. /\ Sound(Verified(s, msg, sig)) /\ Verified(s, msg, sig).key = s.key
      /\ Verified(s, msg, sig).window = s.window
      /\ Verified(s, msg, sig).nextNonce = s.nextNonce
  BY <1>2, <1>4, SoundVerified
<1>6. QED
  BY <1>2, <1>3, <1>4, <1>5 DEF s, sig

\* A snapshot of a sound notary is sound.
LEMMA SnapshotSound ==
  ASSUME NEW t, Sound(t)
  PROVE  /\ SoundSnapshot(ReplaySnapshot(t))
         /\ ReplaySnapshot(t).window = t.window
         /\ ReplaySnapshot(t).nextNonce = t.nextNonce
BY DEF Sound, Notary, SoundSnapshot, Snapshot, ReplaySnapshot

\* A fresh notary is sound.
LEMMA NewTrentSound ==
  ASSUME NEW key \in Keys
  PROVE  Sound(NewTrent(key)) /\ NewTrent(key).key = key
<1>1. <<Genesis>> \in History
  BY DEF Genesis, History, ChainLink
<1>2. QED
  BY <1>1 DEF Sound, NewTrent, Notary, Outcome

\* A notary restored from a sound snapshot is sound and resumes its counters.
LEMMA RestoredSound ==
  ASSUME NEW t, Sound(t), NEW snap, SoundSnapshot(snap)
  PROVE  /\ Sound(Restored(t, snap))
         /\ Restored(t, snap).key = t.key
         /\ Restored(t, snap).window = snap.window
         /\ Restored(t, snap).nextNonce = snap.nextNonce
<1>1. /\ Restored(t, snap) \in Notary(Keys)
      /\ Restored(t, snap).key = t.key
      /\ Restored(t, snap).window = snap.window
      /\ Restored(t, snap).nextNonce = snap.nextNonce
      /\ Restored(t, snap).consumed = snap.consumed
      /\ Restored(t, snap).used = snap.used
  BY DEF Sound, Notary, Restored, SoundSnapshot, Snapshot
<1>2. QED
  BY <1>1 DEF Sound, SoundSnapshot

-----------------------------------------------------------------------------
(***************************************************************************)
(* The inductive invariant, for one laptop: notary t, file d, remembered   *)
(* signatures g, k notaries set up so far, seeding sd.  A remembered       *)
(* signature may outlive the notary that accepted it (a battery reads it,  *)
(* then qds_setup swaps the notary): with a pinned seed the file must know *)
(* it, without one the key must have changed.                              *)
(***************************************************************************)
Remembers(t, d, x, k, sd) ==
  /\ x.sig.key = t.key => Behind(x.sig, t.window, t.nextNonce)
  /\ x.sig.key[1] \in 0..(k + 1)
  /\ sd = "pinned" =>
       d # {} /\ \A snap \in d : Behind(x.sig, snap.window, snap.nextNonce)

FileFits(t, d, sd) ==
  /\ \A snap \in d : SoundSnapshot(snap)
  /\ \A snap, other \in d : snap = other
  /\ sd = "pinned" =>
       \A snap \in d : snap.window <= t.window /\ snap.nextNonce <= t.nextNonce

Fits(t, d, g, k, sd) ==
  /\ Sound(t) /\ t.key[1] <= k + 1
  /\ FileFits(t, d, sd)
  /\ \A x \in g : Remembers(t, d, x, k, sd)

Typed ==
  /\ seeding \in Seeding
  /\ trent \in [Laptops -> Notary(Keys)]
  /\ disk \in [Laptops -> SUBSET Snapshot]
  /\ last \in [Laptops -> SUBSET Remembered]
  /\ battery \in [Laptops -> SUBSET Remembered]
  /\ boots \in Nat

IInv ==
  /\ Typed
  /\ \A n \in Laptops : Fits(trent[n], disk[n], last[n] \cup battery[n], boots, seeding)

\* A notary that moved on under its key still fits its file and its memories.
LEMMA FitsAdvance ==
  ASSUME NEW t, NEW u, NEW d, NEW g, NEW k \in Nat, NEW sd, Fits(t, d, g, k, sd),
         Sound(u), u.key = t.key, u.window >= t.window, u.nextNonce >= t.nextNonce
  PROVE  Fits(u, d, g, k, sd)
<1>1. /\ t.window \in Nat /\ u.window \in Nat /\ t.nextNonce \in Nat /\ u.nextNonce \in Nat
  BY DEF Fits, Sound, Notary
<1>2. FileFits(u, d, sd)
  <2>1. \A snap \in d : snap.window \in Nat /\ snap.nextNonce \in Nat
    BY DEF Fits, FileFits, SoundSnapshot, Snapshot
  <2>2. QED
    BY <1>1, <2>1 DEF Fits, FileFits
<1>3. \A x \in g : Remembers(u, d, x, k, sd)
  BY <1>1 DEF Fits, Remembers, Behind
<1>4. QED
  BY <1>2, <1>3 DEF Fits

\* Persisting keeps the fit: the new snapshot knows what the old one knew.
LEMMA FitsPersist ==
  ASSUME NEW t, NEW d, NEW g, NEW k \in Nat, NEW sd, Fits(t, d, g, k, sd)
  PROVE  Fits(t, {ReplaySnapshot(t)}, g, k, sd)
<1>1. Sound(t) /\ t.window \in Nat /\ t.nextNonce \in Nat
  BY DEF Fits, Sound, Notary
<1>2. /\ SoundSnapshot(ReplaySnapshot(t)) /\ ReplaySnapshot(t).window = t.window
      /\ ReplaySnapshot(t).nextNonce = t.nextNonce
  BY <1>1, SnapshotSound
<1>3. FileFits(t, {ReplaySnapshot(t)}, sd)
  BY <1>1, <1>2 DEF FileFits
<1>4. ASSUME NEW x \in g, sd = "pinned" PROVE Behind(x.sig, t.window, t.nextNonce)
  <2>1. PICK snap \in d : Behind(x.sig, snap.window, snap.nextNonce)
    BY <1>4 DEF Fits, Remembers
  <2>2. /\ snap.window \in Nat /\ snap.nextNonce \in Nat
        /\ snap.window <= t.window /\ snap.nextNonce <= t.nextNonce
    BY <1>4 DEF Fits, FileFits, SoundSnapshot, Snapshot
  <2>3. QED
    BY <1>1, <2>1, <2>2 DEF Behind
<1>5. \A x \in g : Remembers(t, {ReplaySnapshot(t)}, x, k, sd)
  BY <1>2, <1>4 DEF Fits, Remembers
<1>6. QED
  BY <1>3, <1>5 DEF Fits

\* What the notary has just accepted and persisted may be remembered.
LEMMA FitsRemember ==
  ASSUME NEW t, NEW g, NEW x, NEW k \in Nat, NEW sd, Fits(t, {ReplaySnapshot(t)}, g, k, sd),
         x.sig.key = t.key, Behind(x.sig, t.window, t.nextNonce)
  PROVE  Fits(t, {ReplaySnapshot(t)}, g \cup {x}, k, sd)
<1>1. /\ ReplaySnapshot(t).window = t.window /\ ReplaySnapshot(t).nextNonce = t.nextNonce
  BY SnapshotSound DEF Fits
<1>2. Remembers(t, {ReplaySnapshot(t)}, x, k, sd)
  <2>1. t.key[1] \in 0..(k + 1)
    BY DEF Fits, Sound, Notary, Keys
  <2>2. QED
    BY <1>1, <2>1 DEF Remembers
<1>3. QED
  BY <1>2 DEF Fits

\* A laptop may forget, and another one may be set up.
LEMMA FitsForget ==
  ASSUME NEW t, NEW d, NEW g, NEW h, NEW k \in Nat, NEW sd, Fits(t, d, g, k, sd), h \subseteq g
  PROVE  Fits(t, d, h, k, sd) /\ Fits(t, d, h, k + 1, sd)
<1>1. t.key[1] \in Nat
  BY DEF Fits, Sound, Notary, Keys
<1>2. t.key[1] <= k + 1 + 1
  BY <1>1 DEF Fits
<1>3. Fits(t, d, h, k, sd)
  BY DEF Fits
<1>4. ASSUME NEW x \in h PROVE Remembers(t, d, x, k + 1, sd)
  <2>1. Remembers(t, d, x, k, sd)
    BY <1>3 DEF Fits
  <2>2. QED
    BY <2>1 DEF Remembers
<1>5. QED
  BY <1>2, <1>3, <1>4 DEF Fits

\* A notary set up anew, with or without the file, fits the file and whatever
\* was remembered under the notary before it.
LEMMA FitsStarted ==
  ASSUME Typed, NEW n \in Laptops, NEW g, NEW params \in Params,
         Fits(trent[n], disk[n], g, boots, seeding)
  PROVE  Fits(Started(n, params, boots + 1), disk[n], g, boots + 1, seeding)
<1> DEFINE key == Key(params, boots + 1)
           fresh == NewTrent(key)
           t == Started(n, params, boots + 1)
           d == disk[n]
<1>1. boots \in Nat
  BY DEF Typed
<1>2. key \in Keys /\ key[1] = IF seeding = "pinned" THEN 0 ELSE boots + 1 + 1
  BY <1>1 DEF Key, Keys
<1>3. Sound(fresh) /\ fresh.key = key
  BY <1>2, NewTrentSound
<1> HIDE DEF fresh, key
<1>4. CASE seeding # "unset" /\ d # {}
  <2> DEFINE snap == CHOOSE s \in d : TRUE
  <2>1. snap \in d /\ \A s \in d : s = snap
    BY <1>4 DEF Fits, FileFits
  <2>2. t = Restored(fresh, snap)
    BY <1>4 DEF Started, fresh, key
  <2> HIDE DEF snap, t
  <2>3. SoundSnapshot(snap)
    BY <2>1 DEF Fits, FileFits
  <2>4. Sound(t) /\ t.key = key /\ t.window = snap.window /\ t.nextNonce = snap.nextNonce
    BY <1>3, <2>2, <2>3, RestoredSound
  <2>5. t.key[1] <= boots + 1 + 1
    BY <1>1, <1>2, <2>4
  <2>6. FileFits(t, d, seeding)
    <3>1. snap.window \in Nat /\ snap.nextNonce \in Nat
      BY <2>3 DEF SoundSnapshot, Snapshot
    <3>2. QED
      BY <2>1, <2>4, <3>1 DEF Fits, FileFits
  <2>7. ASSUME NEW x \in g PROVE Remembers(t, d, x, boots + 1, seeding)
    <3>1. Remembers(trent[n], d, x, boots, seeding)
      BY DEF Fits
    <3>2. x.sig.key[1] \in 0..(boots + 1 + 1)
      BY <1>1, <3>1 DEF Remembers
    <3>3. CASE seeding = "pinned"
      BY <2>1, <2>4, <3>1, <3>2, <3>3 DEF Remembers
    <3>4. CASE seeding # "pinned"
      <4>1. x.sig.key # t.key
        BY <1>1, <1>2, <2>4, <3>1, <3>4 DEF Remembers
      <4>2. QED
        BY <3>2, <3>4, <4>1 DEF Remembers
    <3>5. QED
      BY <3>3, <3>4
  <2>8. QED
    BY <2>4, <2>5, <2>6, <2>7 DEF Fits, t
<1>5. CASE seeding = "unset" \/ d = {}
  <2>1. t = fresh
    BY <1>5 DEF Started, fresh, key
  <2> HIDE DEF t
  <2>2. t.key[1] <= boots + 1 + 1
    BY <1>1, <1>2, <1>3, <2>1
  <2>3. FileFits(t, d, seeding)
    BY <1>5 DEF Fits, FileFits
  <2>4. ASSUME NEW x \in g PROVE Remembers(t, d, x, boots + 1, seeding)
    <3>1. Remembers(trent[n], d, x, boots, seeding)
      BY DEF Fits
    <3>2. seeding # "pinned"
      BY <1>5, <3>1 DEF Remembers
    <3>3. x.sig.key[1] \in 0..(boots + 1 + 1) /\ x.sig.key # t.key
      BY <1>1, <1>2, <1>3, <2>1, <3>1, <3>2 DEF Remembers
    <3>4. QED
      BY <3>2, <3>3 DEF Remembers
  <2>5. QED
    BY <1>3, <2>1, <2>2, <2>3, <2>4 DEF Fits, t
<1>6. QED
  BY <1>4, <1>5

-----------------------------------------------------------------------------
\* The deployment starts with fresh notaries, no files and nothing remembered.
LEMMA InvInit == Init => IInv
<1> SUFFICES ASSUME Init PROVE IInv
  OBVIOUS
<1>1. seeding \in Seeding /\ boots = 0
  BY ServerAssumption DEF Init
<1>2. Key(DefaultParams, 0) \in Keys /\ Key(DefaultParams, 0)[1] <= 1
  BY ServerAssumption DEF Key, Keys
<1>3. Sound(NewTrent(Key(DefaultParams, 0)))
      /\ NewTrent(Key(DefaultParams, 0)).key = Key(DefaultParams, 0)
  BY <1>2, NewTrentSound
<1>4. Typed
  BY <1>1, <1>3 DEF Init, Typed, Sound
<1>5. ASSUME NEW n \in Laptops
      PROVE  Fits(trent[n], disk[n], last[n] \cup battery[n], boots, seeding)
  BY <1>1, <1>2, <1>3 DEF Init, Fits, FileFits
<1>6. QED
  BY <1>4, <1>5 DEF IInv

\* qds_sign keeps the invariant.
LEMMA LabSignInv ==
  ASSUME PersistMayFail = FALSE, IInv,
         NEW n \in Laptops, NEW msg \in Message, NEW entropy \in Entropy,
         LabSign(n, msg, entropy)
  PROVE  IInv'
<1> DEFINE sig == NextSignature(trent[n], msg, entropy)
           t == Verified(Signed(trent[n], entropy), msg, sig)
           x == [msg |-> msg, sig |-> sig]
<1>1. Typed /\ Fits(trent[n], disk[n], last[n] \cup battery[n], boots, seeding)
  BY DEF IInv
<1>2. Sound(trent[n]) /\ trent[n].window \in Nat /\ trent[n].nextNonce \in Nat /\ boots \in Nat
  BY <1>1 DEF Fits, Sound, Notary, Typed
<1>3. /\ Sound(t) /\ t.key = trent[n].key
      /\ t.window = trent[n].window + 1 /\ t.nextNonce = trent[n].nextNonce + 1
      /\ sig \in Signatures(Keys) /\ sig.key = t.key
      /\ Behind(sig, t.window, t.nextNonce)
  BY <1>2, SoundSession
<1>4. /\ trent' = [trent EXCEPT ![n] = t]
      /\ disk' = [disk EXCEPT ![n] = {ReplaySnapshot(t)}]
      /\ last' = [last EXCEPT ![n] = {x}]
      /\ UNCHANGED <<seeding, battery, boots>>
  BY DEF LabSign, Persist
<1> HIDE DEF t, sig
<1>5. ReplaySnapshot(t) \in Snapshot
  BY <1>3, SnapshotSound DEF SoundSnapshot
<1>6. x \in Remembered
  BY <1>3 DEF Remembered
<1>7. Typed'
  BY <1>1, <1>3, <1>4, <1>5, <1>6 DEF Typed, Sound
<1>8. Fits(t, disk[n], battery[n], boots, seeding)
  <2>1. Fits(trent[n], disk[n], battery[n], boots, seeding)
    BY <1>1, <1>2, FitsForget
  <2>2. t.window >= trent[n].window /\ t.nextNonce >= trent[n].nextNonce
    BY <1>2, <1>3
  <2>3. QED
    BY <1>2, <1>3, <2>1, <2>2, FitsAdvance
<1>9. Fits(t, {ReplaySnapshot(t)}, battery[n] \cup {x}, boots, seeding)
  <2>1. Fits(t, {ReplaySnapshot(t)}, battery[n], boots, seeding)
    BY <1>2, <1>8, FitsPersist
  <2>2. x.sig.key = t.key /\ Behind(x.sig, t.window, t.nextNonce)
    BY <1>3
  <2>3. QED
    BY <1>2, <2>1, <2>2, FitsRemember
<1>10. ASSUME NEW m \in Laptops
       PROVE  Fits(trent'[m], disk'[m], last'[m] \cup battery'[m], boots', seeding')
  <2>1. CASE m = n
    <3>1. /\ trent'[m] = t /\ disk'[m] = {ReplaySnapshot(t)}
          /\ last'[m] \cup battery'[m] = battery[n] \cup {x}
          /\ boots' = boots /\ seeding' = seeding
      BY <1>1, <1>4, <2>1 DEF Typed
    <3>2. QED
      BY <1>9, <3>1
  <2>2. CASE m # n
    BY <1>1, <1>4, <2>2 DEF IInv, Typed
  <2>3. QED
    BY <2>1, <2>2
<1>11. QED
  BY <1>7, <1>10 DEF IInv

\* doc_seal and peer_send keep the invariant, though they persist nothing.
LEMMA SealDocumentInv ==
  ASSUME IInv, NEW n \in Laptops, NEW msg \in Message, NEW entropy \in Entropy,
         SealDocument(n, msg, entropy)
  PROVE  IInv'
<1> DEFINE sig == NextSignature(trent[n], msg, entropy)
           t == Verified(Signed(trent[n], entropy), msg, sig)
<1>1. Typed /\ Fits(trent[n], disk[n], last[n] \cup battery[n], boots, seeding)
  BY DEF IInv
<1>2. Sound(trent[n]) /\ trent[n].window \in Nat /\ trent[n].nextNonce \in Nat /\ boots \in Nat
  BY <1>1 DEF Fits, Sound, Notary, Typed
<1>3. /\ Sound(t) /\ t.key = trent[n].key
      /\ t.window = trent[n].window + 1 /\ t.nextNonce = trent[n].nextNonce + 1
  BY <1>2, SoundSession
<1>4. trent' = [trent EXCEPT ![n] = t] /\ UNCHANGED <<seeding, disk, last, battery, boots>>
  BY DEF SealDocument
<1> HIDE DEF t, sig
<1>5. Typed'
  BY <1>1, <1>3, <1>4 DEF Typed, Sound
<1>6. Fits(t, disk[n], last[n] \cup battery[n], boots, seeding)
  <2>1. t.window >= trent[n].window /\ t.nextNonce >= trent[n].nextNonce
    BY <1>2, <1>3
  <2>2. QED
    BY <1>1, <1>2, <1>3, <2>1, FitsAdvance
<1>7. ASSUME NEW m \in Laptops
      PROVE  Fits(trent'[m], disk'[m], last'[m] \cup battery'[m], boots', seeding')
  <2>1. CASE m = n
    BY <1>1, <1>4, <1>6, <2>1 DEF Typed
  <2>2. CASE m # n
    BY <1>1, <1>4, <2>2 DEF IInv, Typed
  <2>3. QED
    BY <2>1, <2>2
<1>8. QED
  BY <1>5, <1>7 DEF IInv

\* Reading the last signature keeps the invariant.
LEMMA ReadLastInv ==
  ASSUME IInv, NEW n \in Laptops, ReadLast(n)
  PROVE  IInv'
<1>1. Typed /\ boots \in Nat
  BY DEF IInv, Typed
<1>2. battery' = [battery EXCEPT ![n] = last[n]] /\ UNCHANGED <<seeding, trent, disk, last, boots>>
  BY DEF ReadLast
<1>3. Typed'
  BY <1>1, <1>2 DEF Typed
<1>4. ASSUME NEW m \in Laptops
      PROVE  Fits(trent'[m], disk'[m], last'[m] \cup battery'[m], boots', seeding')
  <2>1. Fits(trent[m], disk[m], last[m] \cup battery[m], boots, seeding)
    BY DEF IInv
  <2>2. last'[m] \cup battery'[m] \subseteq last[m] \cup battery[m]
    BY <1>1, <1>2 DEF Typed
  <2>3. QED
    BY <1>1, <1>2, <2>1, <2>2, FitsForget
<1>5. QED
  BY <1>3, <1>4 DEF IInv

\* The attack battery keeps the invariant, also when the signature it replays
\* was accepted by a notary that has been replaced since.
LEMMA RunBatteryInv ==
  ASSUME PersistMayFail = FALSE, IInv,
         NEW n \in Laptops, NEW entropy \in Entropy, NEW disturbed \in BOOLEAN,
         RunBattery(n, entropy, disturbed)
  PROVE  IInv'
<1>1. Typed /\ Fits(trent[n], disk[n], last[n] \cup battery[n], boots, seeding)
  BY DEF IInv
<1>2. PICK genuine \in battery[n] :
        LET asked == IssueNonce(IssueNonce(IssueNonce(trent[n])))
            replayed == Verified(asked, genuine.msg, genuine.sig)
            session == Signed(replayed, entropy)
            received == [Rebinding(session, IF disturbed THEN <<"noise", genuine.sig.key>>
                                                         ELSE genuine.sig.bits)
                           EXCEPT !.key = session.key]
            bound == IssueNonce(session)
            delivered == Verified(bound, genuine.msg, received)
        IN  /\ trent' = [trent EXCEPT ![n] = IssueNonce(delivered)]
            /\ IF delivered # bound THEN Persist(n, delivered)
               ELSE IF replayed # asked THEN Persist(n, replayed)
               ELSE UNCHANGED disk
            /\ battery' = [battery EXCEPT ![n] = {}]
            /\ UNCHANGED <<seeding, last, boots>>
  BY DEF RunBattery
<1> DEFINE one == IssueNonce(trent[n])
           two == IssueNonce(one)
           asked == IssueNonce(two)
           replayed == Verified(asked, genuine.msg, genuine.sig)
           session == Signed(replayed, entropy)
           bits == IF disturbed THEN <<"noise", genuine.sig.key>> ELSE genuine.sig.bits
           received == [Rebinding(session, bits) EXCEPT !.key = session.key]
           bound == IssueNonce(session)
           delivered == Verified(bound, genuine.msg, received)
           t == IssueNonce(delivered)
           g == last[n] \cup battery[n]
<1>3. /\ Sound(trent[n]) /\ trent[n].window \in Nat /\ trent[n].nextNonce \in Nat
      /\ boots \in Nat
  BY <1>1 DEF Fits, Sound, Notary, Typed
<1>4. /\ Sound(asked) /\ asked.key = trent[n].key /\ asked.window = trent[n].window
      /\ asked.nextNonce = trent[n].nextNonce + 3
  <2>1. Sound(one) /\ one.key = trent[n].key /\ one.window = trent[n].window
        /\ one.nextNonce = trent[n].nextNonce + 1
    BY <1>3, SoundIssue
  <2> HIDE DEF one
  <2>2. Sound(two) /\ two.key = trent[n].key /\ two.window = trent[n].window
        /\ two.nextNonce = trent[n].nextNonce + 2
    BY <1>3, <2>1, SoundIssue
  <2> HIDE DEF two
  <2>3. QED
    BY <1>3, <2>1, <2>2, SoundIssue
<1>5. /\ Sound(replayed) /\ replayed.key = trent[n].key /\ replayed.window = trent[n].window
      /\ replayed.nextNonce = trent[n].nextNonce + 3
  <2> HIDE DEF asked
  <2>1. genuine.sig.key = asked.key => Behind(genuine.sig, asked.window, asked.nextNonce)
    BY <1>1, <1>2, <1>3, <1>4 DEF Fits, Remembers, Behind
  <2>2. QED
    BY <1>4, <2>1, SoundVerified
<1>6. /\ Sound(session) /\ session.key = trent[n].key
      /\ session.window = trent[n].window + 1 /\ session.nextNonce = trent[n].nextNonce + 4
  <2> HIDE DEF replayed
  <2>1. QED
    BY <1>3, <1>5, SoundSigned
<1>7. /\ Sound(bound) /\ bound.key = trent[n].key
      /\ bound.window = trent[n].window + 1 /\ bound.nextNonce = trent[n].nextNonce + 5
  <2> HIDE DEF session
  <2>1. QED
    BY <1>3, <1>6, SoundIssue
<1>8. /\ Sound(delivered) /\ delivered.key = trent[n].key
      /\ delivered.window = trent[n].window + 1 /\ delivered.nextNonce = trent[n].nextNonce + 5
  <2>1. received.window = session.window /\ received.nonce = session.nextNonce
    BY DEF Rebinding, Signature
  <2> HIDE DEF bound, session, received
  <2>2. Behind(received, bound.window, bound.nextNonce)
    BY <1>3, <1>6, <1>7, <2>1 DEF Behind
  <2>3. QED
    BY <1>7, <2>2, SoundVerified
<1>9. /\ Sound(t) /\ t.key = trent[n].key
      /\ t.window = trent[n].window + 1 /\ t.nextNonce = trent[n].nextNonce + 6
  <2> HIDE DEF delivered
  <2>1. QED
    BY <1>3, <1>8, SoundIssue
<1>10. /\ trent' = [trent EXCEPT ![n] = t]
       /\ battery' = [battery EXCEPT ![n] = {}]
       /\ UNCHANGED <<seeding, last, boots>>
       /\ \/ disk' = [disk EXCEPT ![n] = {ReplaySnapshot(delivered)}]
          \/ disk' = [disk EXCEPT ![n] = {ReplaySnapshot(replayed)}]
          \/ UNCHANGED disk
  BY <1>2 DEF Persist
<1> HIDE DEF asked, replayed, session, received, bound, delivered, t
<1>11. Fits(t, disk[n], g, boots, seeding)
  <2>1. t.window >= trent[n].window /\ t.nextNonce >= trent[n].nextNonce
    BY <1>3, <1>9
  <2>2. QED
    BY <1>1, <1>3, <1>9, <2>1, FitsAdvance
<1>12. Fits(t, {ReplaySnapshot(delivered)}, g, boots, seeding)
  <2>1. delivered.window >= trent[n].window /\ delivered.nextNonce >= trent[n].nextNonce
    BY <1>3, <1>8
  <2>2. Fits(delivered, disk[n], g, boots, seeding)
    BY <1>1, <1>3, <1>8, <2>1, FitsAdvance
  <2>3. Fits(delivered, {ReplaySnapshot(delivered)}, g, boots, seeding)
    BY <1>3, <2>2, FitsPersist
  <2>4. t.key = delivered.key /\ t.window >= delivered.window /\ t.nextNonce >= delivered.nextNonce
    BY <1>3, <1>8, <1>9
  <2>5. QED
    BY <1>3, <1>9, <2>3, <2>4, FitsAdvance
<1>13. Fits(t, {ReplaySnapshot(replayed)}, g, boots, seeding)
  <2>1. replayed.window >= trent[n].window /\ replayed.nextNonce >= trent[n].nextNonce
    BY <1>3, <1>5
  <2>2. Fits(replayed, disk[n], g, boots, seeding)
    BY <1>1, <1>3, <1>5, <2>1, FitsAdvance
  <2>3. Fits(replayed, {ReplaySnapshot(replayed)}, g, boots, seeding)
    BY <1>3, <2>2, FitsPersist
  <2>4. t.key = replayed.key /\ t.window >= replayed.window /\ t.nextNonce >= replayed.nextNonce
    BY <1>3, <1>5, <1>9
  <2>5. QED
    BY <1>3, <1>9, <2>3, <2>4, FitsAdvance
<1>14. ReplaySnapshot(delivered) \in Snapshot /\ ReplaySnapshot(replayed) \in Snapshot
  BY <1>5, <1>8, SnapshotSound DEF SoundSnapshot
<1>15. Typed'
  BY <1>1, <1>9, <1>10, <1>14 DEF Typed, Sound
<1>16. Fits(t, disk'[n], last[n], boots, seeding)
  <2>1. n \in DOMAIN disk
    BY <1>1 DEF Typed
  <2>2. last[n] \subseteq g
    OBVIOUS
  <2>3. \/ disk'[n] = {ReplaySnapshot(delivered)}
        \/ disk'[n] = {ReplaySnapshot(replayed)}
        \/ disk'[n] = disk[n]
    BY <1>10, <2>1
  <2> HIDE DEF g
  <2>4. QED
    BY <1>3, <1>11, <1>12, <1>13, <2>2, <2>3, FitsForget
<1>17. ASSUME NEW m \in Laptops
       PROVE  Fits(trent'[m], disk'[m], last'[m] \cup battery'[m], boots', seeding')
  <2>1. CASE m = n
    <3>1. trent'[m] = t /\ last'[m] \cup battery'[m] = last[n] /\ boots' = boots /\ seeding' = seeding
      BY <1>1, <1>10, <2>1 DEF Typed
    <3>2. QED
      BY <1>16, <2>1, <3>1
  <2>2. CASE m # n
    BY <1>1, <1>10, <2>2 DEF IInv, Typed
  <2>3. QED
    BY <2>1, <2>2
<1>18. QED
  BY <1>15, <1>17 DEF IInv

\* A new notary on one laptop, after which it may forget, keeps the invariant.
LEMMA StartedInv ==
  ASSUME IInv, NEW n \in Laptops, NEW params \in Params,
         trent' = [trent EXCEPT ![n] = Started(n, params, boots + 1)],
         boots' = boots + 1, UNCHANGED <<seeding, disk>>,
         last' = [last EXCEPT ![n] = {}],
         battery' = battery \/ battery' = [battery EXCEPT ![n] = {}]
  PROVE  IInv'
<1> DEFINE t == Started(n, params, boots + 1)
<1>1. Typed /\ boots \in Nat
  BY DEF IInv, Typed
<1>2. ASSUME NEW m \in Laptops
      PROVE  Fits(trent[m], disk[m], last[m] \cup battery[m], boots, seeding)
  BY DEF IInv
<1>3. Fits(t, disk[n], last[n] \cup battery[n], boots + 1, seeding)
  BY <1>1, <1>2, FitsStarted
<1> HIDE DEF t
<1>4. ASSUME NEW m \in Laptops
      PROVE  last'[m] \cup battery'[m] \subseteq last[m] \cup battery[m]
  BY <1>1 DEF Typed
<1>5. trent' = [trent EXCEPT ![n] = t]
  BY DEF t
<1>6. Typed'
  <2>1. t \in Notary(Keys)
    BY <1>3 DEF Fits, Sound
  <2>2. QED
    BY <1>1, <1>5, <2>1 DEF Typed
<1>7. ASSUME NEW m \in Laptops
      PROVE  Fits(trent'[m], disk'[m], last'[m] \cup battery'[m], boots', seeding')
  <2>1. CASE m = n
    <3>1. trent'[m] = t
      BY <1>1, <1>5, <2>1 DEF Typed
    <3>2. boots + 1 \in Nat
      BY <1>1
    <3>3. last'[m] \cup battery'[m] \subseteq last[n] \cup battery[n]
      BY <1>4, <2>1
    <3>4. Fits(t, disk[n], last'[m] \cup battery'[m], boots + 1, seeding)
      BY <1>3, <3>2, <3>3, FitsForget
    <3>5. QED
      BY <2>1, <3>1, <3>4
  <2>2. CASE m # n
    <3>1. trent'[m] = trent[m]
      BY <1>1, <1>5, <2>2 DEF Typed
    <3>2. last'[m] \cup battery'[m] \subseteq last[m] \cup battery[m]
      BY <1>4
    <3>3. Fits(trent[m], disk[m], last'[m] \cup battery'[m], boots + 1, seeding)
      BY <1>1, <1>2, <3>2, FitsForget
    <3>4. QED
      BY <3>1, <3>3
  <2>3. QED
    BY <2>1, <2>2
<1>8. QED
  BY <1>6, <1>7 DEF IInv

\* No step breaks the invariant, as long as no write of the snapshot fails.
LEMMA InvStep ==
  ASSUME PersistMayFail = FALSE, IInv, [Next]_vars
  PROVE  IInv'
<1>1. CASE UNCHANGED vars
  BY <1>1 DEF vars, IInv, Typed
<1>2. CASE Next
  <2>1. PICK n \in Laptops :
          \/ \E msg \in Message, entropy \in Entropy :
               LabSign(n, msg, entropy) \/ SealDocument(n, msg, entropy)
          \/ ReadLast(n)
          \/ \E entropy \in Entropy, disturbed \in BOOLEAN : RunBattery(n, entropy, disturbed)
          \/ \E params \in Params : Setup(n, params)
          \/ Restart(n)
    BY <1>2 DEF Next
  <2>2. ASSUME NEW msg \in Message, NEW entropy \in Entropy, LabSign(n, msg, entropy) PROVE IInv'
    BY <2>2, LabSignInv
  <2>3. ASSUME NEW msg \in Message, NEW entropy \in Entropy, SealDocument(n, msg, entropy) PROVE IInv'
    BY <2>3, SealDocumentInv
  <2>4. CASE ReadLast(n)
    BY <2>4, ReadLastInv
  <2>5. ASSUME NEW entropy \in Entropy, NEW disturbed \in BOOLEAN, RunBattery(n, entropy, disturbed)
        PROVE  IInv'
    BY <2>5, RunBatteryInv
  <2>6. ASSUME NEW params \in Params, Setup(n, params) PROVE IInv'
    BY <2>6, StartedInv DEF Setup
  <2>7. CASE Restart(n)
    BY <2>7, StartedInv, ServerAssumption DEF Restart
  <2>8. QED
    BY <2>1, <2>2, <2>3, <2>4, <2>5, <2>6, <2>7
<1>3. QED
  BY <1>1, <1>2

\* If no write of the snapshot fails, every notary accepts the next session it
\* signs: no restart, swap of the notary, sealing or replay can burn a window or
\* a nonce that is still to be minted.
THEOREM NextSessionAlwaysAccepted ==
  ASSUME PersistMayFail = FALSE
  PROVE  Spec => []NextSessionAccepted
<1>1. Init => IInv
  BY InvInit
<1>2. IInv /\ [Next]_vars => IInv'
  BY InvStep
<1>3. IInv => NextSessionAccepted
  BY SoundAcceptsNext DEF IInv, Fits, NextSessionAccepted
<1>4. QED
  BY <1>1, <1>2, <1>3, PTL DEF Spec

-----------------------------------------------------------------------------
(***************************************************************************)
(* What a notary minted it keeps: chains, and the files that hold copies   *)
(* of them.  Nothing here depends on whether a write of the snapshot may   *)
(* fail.                                                                   *)
(***************************************************************************)

\* Notary or snapshot t holds every consumed window and every link s holds.
Knows(t, s) ==
  /\ s.consumed \subseteq t.consumed
  /\ \A i \in 1..Len(s.history) : \E j \in 1..Len(t.history) : t.history[j] = s.history[i]

\* The last link of a chain binds the window and the frontier to the link before.
Chained(t) ==
  Len(t.history) >= 2 =>
    t.history[Len(t.history)] = Link(t.history[Len(t.history) - 1], t.window, t.frontier)

\* A signature over its own message, bound by its tag and its link.
Genuine(x) ==
  /\ TagOk(x.sig) /\ StructurallySound(x.sig)
  /\ x.sig.bits = <<x.msg, x.sig.key>>

\* The last laboratory signature: the running notary minted it.
Shown(t, x) ==
  Genuine(x) /\ x.sig.key = t.key /\ LocallyMinted(t, x.sig) /\ Len(t.history) >= 2

\* The signature of a sealed document, after k notaries were set up: only with
\* a pinned seed can a notary have its key and not its link.
Kept(t, x, k, sd) ==
  /\ Genuine(x) /\ x.sig.key[1] \in 0..(k + 1)
  /\ (x.sig.key = t.key /\ sd # "pinned") \/ k = 0 => LocallyMinted(t, x.sig)

Linked(t, d, l, D, k, sd) ==
  /\ t.key[1] <= k + 1
  /\ Chained(t) /\ \A snap \in d : Chained(snap)
  /\ \A snap, other \in d : snap = other
  /\ sd = "pinned" => \A snap \in d : Knows(t, snap)
  /\ \A x \in l : Shown(t, x)
  /\ \A x \in D : Kept(t, x, k, sd)

\* What laptop n issued of a set of signatures.
IssuedOn(n, ds) == { x \in ds : x.by = n }
Issued == [by : Laptops, msg : Message, sig : Signatures(Keys)]

LinkInv ==
  /\ Typed /\ docs \subseteq Issued
  /\ \A n \in Laptops :
       Linked(trent[n], disk[n], last[n], IssuedOn(n, docs), boots, seeding)

\* Notary u is notary t later on.
Later(u, t) ==
  /\ u \in Notary(Keys) /\ u.key = t.key
  /\ Knows(u, t) /\ Len(u.history) >= Len(t.history)
  /\ Chained(t) => Chained(u)

LEMMA LaterTransitive ==
  ASSUME NEW t \in Notary(Keys), NEW u, NEW v, Later(u, t), Later(v, u)
  PROVE  Later(v, t)
<1>1. Knows(v, t)
  BY DEF Later, Knows
<1>2. Len(v.history) >= Len(t.history)
  <2>1. t.history \in Seq(ChainLink) /\ u.history \in Seq(ChainLink) /\ v.history \in Seq(ChainLink)
    BY DEF Later, Notary, History
  <2>2. Len(t.history) \in Nat /\ Len(u.history) \in Nat /\ Len(v.history) \in Nat
    BY <2>1
  <2>3. QED
    BY <2>2 DEF Later
<1>3. QED
  BY <1>1, <1>2 DEF Later

\* A notary that only got a nonce, or filled a window, is itself later on.
LEMMA LaterSameChain ==
  ASSUME NEW t \in Notary(Keys), NEW u \in Notary(Keys), u.key = t.key,
         u.history = t.history, u.window = t.window, u.frontier = t.frontier,
         t.consumed \subseteq u.consumed
  PROVE  Later(u, t)
<1>1. Len(t.history) \in Nat
  BY DEF Notary, History
<1>2. Knows(u, t)
  BY DEF Knows
<1>3. QED
  BY <1>1, <1>2 DEF Later, Chained

LEMMA IssueLater ==
  ASSUME NEW t \in Notary(Keys)
  PROVE  /\ IssueNonce(t) \in Notary(Keys) /\ Later(IssueNonce(t), t)
<1> DEFINE u == IssueNonce(t)
<1>1. /\ u \in Notary(Keys) /\ u.key = t.key /\ u.history = t.history
      /\ u.window = t.window /\ u.frontier = t.frontier /\ u.consumed = t.consumed
  BY DEF IssueNonce, Notary
<1> HIDE DEF u
<1>2. Later(u, t)
  BY <1>1, LaterSameChain
<1>3. QED
  BY <1>1, <1>2 DEF u

LEMMA VerifiedLater ==
  ASSUME NEW t \in Notary(Keys), NEW msg, NEW sig, sig.window \in Nat, sig.nonce \in Nat
  PROVE  /\ Verified(t, msg, sig) \in Notary(Keys) /\ Later(Verified(t, msg, sig), t)
         /\ Verified(t, msg, sig).history = t.history
<1>1. CASE ~Accepts(t, msg, sig)
  <2>1. Verified(t, msg, sig) = t
    BY <1>1 DEF Verified
  <2>2. Later(t, t)
    BY LaterSameChain
  <2>3. QED
    BY <2>1, <2>2
<1>2. CASE Accepts(t, msg, sig)
  <2> DEFINE u == Accepted(t, sig)
  <2>1. Verified(t, msg, sig) = u
    BY <1>2 DEF Verified
  <2>2. /\ u \in Notary(Keys) /\ u.key = t.key /\ u.history = t.history
        /\ u.window = t.window /\ u.frontier = t.frontier /\ t.consumed \subseteq u.consumed
    BY DEF Accepted, Notary
  <2> HIDE DEF u
  <2>3. Later(u, t)
    BY <2>2, LaterSameChain
  <2>4. QED
    BY <2>1, <2>2, <2>3
<1>3. QED
  BY <1>1, <1>2

\* Signing adds a link and keeps the others.
LEMMA SignedLater ==
  ASSUME NEW t \in Notary(Keys), NEW entropy \in Entropy
  PROVE  LET u == Signed(t, entropy)
             link == Link(Last(t.history), t.window + 1, entropy)
         IN  /\ u \in Notary(Keys) /\ Later(u, t)
             /\ Len(u.history) >= 2 /\ u.history[Len(u.history)] = link
<1> DEFINE u == Signed(t, entropy)
           link == Link(Last(t.history), t.window + 1, entropy)
<1>1. /\ u \in Notary(Keys) /\ u.key = t.key /\ u.window = t.window + 1
      /\ u.history = Append(t.history, link)
      /\ u.consumed = t.consumed /\ u.frontier = entropy
  BY SignedFields
<1>2. t.history \in History /\ t.window \in Nat
  BY DEF Notary
<1>3. t.history \in Seq(ChainLink) /\ Len(t.history) \in Nat /\ Len(t.history) >= 1
      /\ Last(t.history) = t.history[Len(t.history)]
  <2>1. t.history \in Seq(ChainLink) /\ t.history # <<>>
    BY <1>2 DEF History
  <2>2. QED
    BY <2>1 DEF Last
<1>4. link \in ChainLink
  BY <1>2, LastLink, LinkType DEF Outcome
<1> HIDE DEF u, link
<1>5. /\ Len(u.history) = Len(t.history) + 1 /\ u.history[Len(t.history) + 1] = link
      /\ \A i \in 1..Len(t.history) : u.history[i] = t.history[i]
  BY <1>1, <1>3, <1>4
<1>6. Knows(u, t)
  <2>1. \A i \in 1..Len(t.history) : i \in 1..Len(u.history)
    BY <1>3, <1>5
  <2>2. QED
    BY <1>1, <1>5, <2>1 DEF Knows
<1>7. Chained(u)
  <2>1. u.history[Len(u.history)] = link /\ Len(u.history) - 1 = Len(t.history)
    BY <1>3, <1>5
  <2>2. u.history[Len(u.history) - 1] = Last(t.history)
    BY <1>3, <1>5, <2>1
  <2>3. QED
    BY <1>1, <2>1, <2>2 DEF Chained, link
<1>8. Later(u, t) /\ Len(u.history) >= 2 /\ u.history[Len(u.history)] = link
  BY <1>1, <1>3, <1>5, <1>6, <1>7 DEF Later
<1>9. QED
  BY <1>1, <1>8 DEF u, link

\* A later notary has minted what the earlier one had.
LEMMA MintedLater ==
  ASSUME NEW t, NEW u, NEW sig, Knows(u, t), LocallyMinted(t, sig)
  PROVE  LocallyMinted(u, sig)
<1>1. PICK i \in 1..Len(t.history) : t.history[i] = sig.link
  BY DEF LocallyMinted
<1>2. PICK j \in 1..Len(u.history) : u.history[j] = t.history[i]
  BY DEF Knows
<1>3. QED
  BY <1>1, <1>2 DEF LocallyMinted

\* What qds_sign and sign_document_qds leave: a later notary, that has minted
\* the signature it issued.
LEMMA SessionLater ==
  ASSUME NEW t \in Notary(Keys), NEW msg \in Message, NEW entropy \in Entropy
  PROVE  LET sig == NextSignature(t, msg, entropy)
             u == Verified(Signed(t, entropy), msg, sig)
             x == [msg |-> msg, sig |-> sig]
         IN  /\ u \in Notary(Keys) /\ Later(u, t) /\ sig \in Signatures(Keys)
             /\ Shown(u, x) /\ x \in Remembered
<1> DEFINE sig == NextSignature(t, msg, entropy)
           s == Signed(t, entropy)
           u == Verified(s, msg, sig)
           x == [msg |-> msg, sig |-> sig]
<1>1. sig \in Signatures(Keys) /\ sig.key = t.key
  BY NextSignatureType
<1>2. /\ sig.link = Link(Last(t.history), t.window + 1, entropy)
      /\ Genuine(x)
  BY DEF NextSignature, Signature, Genuine, TagOk, StructurallySound, Tag
<1>3. /\ s \in Notary(Keys) /\ Later(s, t) /\ Len(s.history) >= 2
      /\ s.history[Len(s.history)] = Link(Last(t.history), t.window + 1, entropy)
  BY SignedLater
<1>4. u \in Notary(Keys) /\ Later(u, s) /\ u.history = s.history
  <2>1. sig.window \in Nat /\ sig.nonce \in Nat
    BY <1>1 DEF Signatures
  <2> HIDE DEF sig, s
  <2>2. QED
    BY <1>3, <2>1, VerifiedLater
<1> HIDE DEF sig, s, u
<1>5. Later(u, t)
  BY <1>3, <1>4, LaterTransitive
<1>6. LocallyMinted(u, sig)
  <2>1. u.history \in Seq(ChainLink)
    BY <1>4 DEF Notary, History
  <2>2. Len(u.history) \in 1..Len(u.history)
    BY <1>3, <1>4, <2>1
  <2>3. QED
    BY <1>2, <1>3, <1>4, <2>2 DEF LocallyMinted
<1>7. Shown(u, x) /\ x \in Remembered
  BY <1>1, <1>2, <1>3, <1>4, <1>5, <1>6 DEF Shown, Later, Remembered
<1>8. QED
  BY <1>1, <1>4, <1>5, <1>7 DEF u, sig, s

-----------------------------------------------------------------------------
(* How the chains, the files and the documents of a laptop stay together. *)

\* A notary that moved on.
LEMMA LinkedAdvance ==
  ASSUME NEW t \in Notary(Keys), NEW u, NEW d, NEW l, NEW D, NEW k, NEW sd,
         Linked(t, d, l, D, k, sd), Later(u, t)
  PROVE  Linked(u, d, l, D, k, sd)
<1>1. ASSUME NEW snap \in d, sd = "pinned" PROVE Knows(u, snap)
  <2>1. Knows(t, snap) /\ Knows(u, t)
    BY <1>1 DEF Linked, Later
  <2>2. QED
    BY <2>1 DEF Knows
<1>2. ASSUME NEW x \in l PROVE Shown(u, x)
  <2>1. Shown(t, x) /\ Knows(u, t) /\ u.key = t.key
    BY DEF Linked, Later
  <2>2. LocallyMinted(u, x.sig)
    BY <2>1, MintedLater DEF Shown
  <2>3. Len(u.history) >= 2
    <3>1. t.history \in Seq(ChainLink) /\ u.history \in Seq(ChainLink)
      BY DEF Later, Notary, History
    <3>2. Len(t.history) \in Nat /\ Len(u.history) \in Nat
      BY <3>1
    <3>3. QED
      BY <2>1, <3>2 DEF Shown, Later
  <2>4. QED
    BY <2>1, <2>2, <2>3 DEF Shown
<1>3. ASSUME NEW x \in D PROVE Kept(u, x, k, sd)
  <2>1. Kept(t, x, k, sd) /\ Knows(u, t) /\ u.key = t.key
    BY DEF Linked, Later
  <2>2. QED
    BY <2>1, MintedLater DEF Kept
<1>4. u.key[1] <= k + 1 /\ Chained(u)
  BY DEF Linked, Later
<1>5. QED
  BY <1>1, <1>2, <1>3, <1>4 DEF Linked

\* The snapshot that persist_replay_state writes.
LEMMA LinkedPersist ==
  ASSUME NEW t, NEW d, NEW l, NEW D, NEW k, NEW sd, Linked(t, d, l, D, k, sd)
  PROVE  Linked(t, {ReplaySnapshot(t)}, l, D, k, sd)
<1> DEFINE snap == ReplaySnapshot(t)
<1>1. /\ snap.history = t.history /\ snap.consumed = t.consumed
      /\ snap.window = t.window /\ snap.frontier = t.frontier
  BY DEF ReplaySnapshot
<1> HIDE DEF snap
<1>2. Chained(snap) /\ Knows(t, snap)
  BY <1>1 DEF Linked, Chained, Knows
<1>3. QED
  BY <1>2 DEF Linked, snap

\* A notary set up anew, from the file or without it: with a pinned seed it
\* knows what the file knows; without one its key is new, so nothing that was
\* sealed before is under it.
LEMMA LinkedStarted ==
  ASSUME Typed, NEW n \in Laptops, NEW l, NEW D, NEW params \in Params,
         Linked(trent[n], disk[n], l, D, boots, seeding)
  PROVE  LET t == Started(n, params, boots + 1)
         IN  /\ t \in Notary(Keys) /\ t.key = Key(params, boots + 1)
             /\ Linked(t, disk[n], {}, D, boots + 1, seeding)
<1> DEFINE key == Key(params, boots + 1)
           fresh == NewTrent(key)
           t == Started(n, params, boots + 1)
           d == disk[n]
<1>1. boots \in Nat /\ d \in SUBSET Snapshot
  BY DEF Typed
<1>2. key \in Keys /\ key[1] = IF seeding = "pinned" THEN 0 ELSE boots + 1 + 1
  BY <1>1 DEF Key, Keys
<1>3. /\ fresh \in Notary(Keys) /\ fresh.key = key
      /\ fresh.history = <<Genesis>> /\ fresh.consumed = {}
  BY <1>2, NewTrentSound DEF Sound, NewTrent
<1> HIDE DEF fresh, key
<1>4. /\ t \in Notary(Keys) /\ t.key = key /\ Chained(t)
      /\ seeding = "pinned" => \A snap \in d : Knows(t, snap)
  <2>1. CASE seeding # "unset" /\ d # {}
    <3> DEFINE snap == CHOOSE s \in d : TRUE
    <3>1. snap \in d /\ snap \in Snapshot
      BY <1>1, <2>1
    <3>2. t = Restored(fresh, snap)
      BY <2>1 DEF Started, fresh, key
    <3> HIDE DEF snap, t, d
    <3>3. /\ t \in Notary(Keys) /\ t.key = key /\ t.history = snap.history
          /\ t.consumed = snap.consumed /\ t.window = snap.window /\ t.frontier = snap.frontier
      BY <1>3, <3>1, <3>2 DEF Restored, Notary, Snapshot
    <3>4. Chained(snap) /\ \A s \in d : s = snap
      BY <3>1 DEF Linked, d
    <3>5. Chained(t) /\ Knows(t, snap)
      BY <3>3, <3>4 DEF Chained, Knows
    <3>6. QED
      BY <3>3, <3>4, <3>5
  <2>2. CASE seeding = "unset" \/ d = {}
    <3>1. t = fresh
      BY <2>2 DEF Started, fresh, key
    <3>2. Chained(fresh)
      BY <1>3 DEF Chained
    <3>3. seeding = "pinned" => d = {}
      BY <2>2
    <3> HIDE DEF t, d
    <3>4. QED
      BY <1>3, <3>1, <3>2, <3>3
  <2>3. QED
    BY <2>1, <2>2
<1> HIDE DEF t
<1>5. t.key[1] <= boots + 1 + 1
  BY <1>1, <1>2, <1>4
<1>6. ASSUME NEW x \in D PROVE Kept(t, x, boots + 1, seeding)
  <2>1. Kept(trent[n], x, boots, seeding)
    BY DEF Linked
  <2>2. x.sig.key[1] \in 0..(boots + 1 + 1) /\ boots + 1 # 0
    BY <1>1, <2>1 DEF Kept
  <2>3. seeding # "pinned" => x.sig.key # t.key
    <3>1. x.sig.key[1] \in 0..(boots + 1)
      BY <2>1 DEF Kept
    <3>2. QED
      BY <1>1, <1>2, <1>4, <3>1
  <2>4. QED
    BY <2>1, <2>2, <2>3 DEF Kept
<1>7. Linked(t, d, {}, D, boots + 1, seeding)
  BY <1>4, <1>5, <1>6 DEF Linked
<1>8. QED
  BY <1>4, <1>7 DEF t, key

\* A notary set up on another laptop.
LEMMA LinkedElsewhere ==
  ASSUME NEW t, NEW d, NEW l, NEW D, NEW k \in Nat, NEW sd, Linked(t, d, l, D, k, sd),
         t.key \in Keys
  PROVE  Linked(t, d, l, D, k + 1, sd)
<1>1. t.key[1] <= k + 1 + 1
  BY DEF Linked, Keys
<1>2. ASSUME NEW x \in D PROVE Kept(t, x, k + 1, sd)
  <2>1. Kept(t, x, k, sd)
    BY DEF Linked
  <2>2. x.sig.key[1] \in 0..(k + 1 + 1) /\ k + 1 # 0
    BY <2>1 DEF Kept
  <2>3. QED
    BY <2>1, <2>2 DEF Kept
<1>3. QED
  BY <1>1, <1>2 DEF Linked

\* A step of one laptop leaves the others as they are.
LEMMA LinkInvAt ==
  ASSUME LinkInv, NEW n \in Laptops, Typed', docs' \subseteq Issued,
         \A m \in Laptops \ {n} :
           /\ trent'[m] = trent[m] /\ disk'[m] = disk[m] /\ last'[m] = last[m]
           /\ IssuedOn(m, docs') = IssuedOn(m, docs),
         boots' = boots \/ boots' = boots + 1, seeding' = seeding,
         Linked(trent'[n], disk'[n], last'[n], IssuedOn(n, docs'), boots', seeding)
  PROVE  LinkInv'
<1>1. ASSUME NEW m \in Laptops
      PROVE  Linked(trent'[m], disk'[m], last'[m], IssuedOn(m, docs'), boots', seeding')
  <2>1. CASE m = n
    BY <2>1
  <2>2. CASE m # n
    <3>1. Linked(trent[m], disk[m], last[m], IssuedOn(m, docs), boots, seeding)
      BY DEF LinkInv
    <3>2. boots \in Nat /\ trent[m].key \in Keys
      BY DEF LinkInv, Typed, Notary
    <3>3. Linked(trent[m], disk[m], last[m], IssuedOn(m, docs), boots', seeding)
      BY <3>1, <3>2, LinkedElsewhere
    <3>4. QED
      BY <2>2, <3>3
  <2>3. QED
    BY <2>1, <2>2
<1>2. QED
  BY <1>1 DEF LinkInv, IssuedOn

\* qds_sign, whether its snapshot is written or not.
LEMMA LabSignLinks ==
  ASSUME LinkInv, NEW n \in Laptops, NEW msg \in Message, NEW entropy \in Entropy,
         LabSign(n, msg, entropy)
  PROVE  LinkInv'
<1> DEFINE sig == NextSignature(trent[n], msg, entropy)
           t == Verified(Signed(trent[n], entropy), msg, sig)
           x == [msg |-> msg, sig |-> sig]
           D == IssuedOn(n, docs)
<1>1. Typed /\ trent[n] \in Notary(Keys)
      /\ Linked(trent[n], disk[n], last[n], D, boots, seeding)
  BY DEF LinkInv, Typed
<1>2. t \in Notary(Keys) /\ Later(t, trent[n]) /\ Shown(t, x) /\ x \in Remembered
  BY <1>1, SessionLater
<1>3. /\ trent' = [trent EXCEPT ![n] = t]
      /\ disk' = [disk EXCEPT ![n] = {ReplaySnapshot(t)}] \/ disk' = disk
      /\ last' = [last EXCEPT ![n] = {x}]
      /\ seeding' = seeding /\ battery' = battery /\ boots' = boots /\ docs' = docs
  BY DEF LabSign, Persist
<1> HIDE DEF sig, t, x
<1>4. ReplaySnapshot(t) \in Snapshot
  BY <1>2 DEF Notary, Snapshot, ReplaySnapshot
<1>5. Typed'
  <2>1. disk' \in [Laptops -> SUBSET Snapshot]
    BY <1>1, <1>3, <1>4 DEF Typed
  <2>2. trent' \in [Laptops -> Notary(Keys)] /\ last' \in [Laptops -> SUBSET Remembered]
    BY <1>1, <1>2, <1>3 DEF Typed
  <2>3. QED
    BY <1>1, <1>3, <2>1, <2>2 DEF Typed
<1>6. Linked(t, disk[n], {x}, D, boots, seeding)
  <2>1. Linked(t, disk[n], last[n], D, boots, seeding)
    BY <1>1, <1>2, LinkedAdvance
  <2>2. QED
    BY <1>2, <2>1 DEF Linked
<1>7. Linked(t, {ReplaySnapshot(t)}, {x}, D, boots, seeding)
  BY <1>6, LinkedPersist
<1>8. /\ trent'[n] = t /\ last'[n] = {x}
      /\ disk'[n] = {ReplaySnapshot(t)} \/ disk'[n] = disk[n]
      /\ \A m \in Laptops \ {n} :
           trent'[m] = trent[m] /\ disk'[m] = disk[m] /\ last'[m] = last[m]
  BY <1>1, <1>3 DEF Typed
<1>9. Linked(trent'[n], disk'[n], last'[n], IssuedOn(n, docs'), boots', seeding)
  BY <1>3, <1>6, <1>7, <1>8
<1>10. docs' \subseteq Issued
  BY <1>3 DEF LinkInv
<1>11. QED
  BY <1>3, <1>5, <1>8, <1>9, <1>10, LinkInvAt

\* doc_seal and peer_send: the document sealed is one the notary has minted.
LEMMA SealDocumentLinks ==
  ASSUME LinkInv, NEW n \in Laptops, NEW msg \in Message, NEW entropy \in Entropy,
         SealDocument(n, msg, entropy)
  PROVE  LinkInv'
<1> DEFINE sig == NextSignature(trent[n], msg, entropy)
           t == Verified(Signed(trent[n], entropy), msg, sig)
           x == [msg |-> msg, sig |-> sig]
           doc == [by |-> n, msg |-> msg, sig |-> sig]
           D == IssuedOn(n, docs)
<1>1. Typed /\ trent[n] \in Notary(Keys) /\ boots \in Nat
      /\ Linked(trent[n], disk[n], last[n], D, boots, seeding)
  BY DEF LinkInv, Typed
<1>2. /\ t \in Notary(Keys) /\ Later(t, trent[n])
      /\ sig \in Signatures(Keys) /\ Shown(t, x)
  BY <1>1, SessionLater
<1>3. /\ trent' = [trent EXCEPT ![n] = t]
      /\ docs' = docs \cup {doc}
      /\ seeding' = seeding /\ disk' = disk /\ last' = last /\ battery' = battery
      /\ boots' = boots
  BY DEF SealDocument
<1>4. /\ x.msg = doc.msg /\ x.sig = doc.sig /\ doc.by = n /\ doc.sig = sig
  OBVIOUS
<1>5. doc \in Issued
  <2> HIDE DEF sig
  <2>1. QED
    BY <1>2 DEF Issued
<1> HIDE DEF sig, t, x, doc
<1>6. Typed'
  <2>1. trent' \in [Laptops -> Notary(Keys)]
    BY <1>1, <1>2, <1>3 DEF Typed
  <2>2. QED
    BY <1>1, <1>3, <2>1 DEF Typed
<1>7. Kept(t, doc, boots, seeding)
  <2>1. t.key[1] \in 0..(boots + 1)
    BY <1>1, <1>2 DEF Linked, Later, Notary, Keys
  <2>2. QED
    BY <1>2, <1>4, <2>1 DEF Shown, Genuine, Kept
<1>8. Linked(t, disk[n], last[n], D \cup {doc}, boots, seeding)
  <2>1. Linked(t, disk[n], last[n], D, boots, seeding)
    BY <1>1, <1>2, LinkedAdvance
  <2>2. QED
    BY <1>7, <2>1 DEF Linked
<1>9. /\ IssuedOn(n, docs') = D \cup {doc}
      /\ \A m \in Laptops \ {n} : IssuedOn(m, docs') = IssuedOn(m, docs)
  BY <1>3, <1>4 DEF IssuedOn
<1>10. trent'[n] = t /\ \A m \in Laptops \ {n} : trent'[m] = trent[m]
  BY <1>1, <1>3 DEF Typed
<1>11. docs' \subseteq Issued
  BY <1>3, <1>5 DEF LinkInv
<1>12. QED
  BY <1>3, <1>6, <1>8, <1>9, <1>10, <1>11, LinkInvAt

\* The battery: three notaries later than the one before, the first two of
\* which may have been persisted.
LEMMA BatteryLater ==
  ASSUME Typed, NEW n \in Laptops, NEW entropy \in Entropy, NEW disturbed \in BOOLEAN,
         RunBattery(n, entropy, disturbed)
  PROVE  \E r, d, t \in Notary(Keys) :
           /\ Later(r, trent[n]) /\ Later(d, r) /\ Later(t, d)
           /\ trent' = [trent EXCEPT ![n] = t]
           /\ battery' = [battery EXCEPT ![n] = {}]
           /\ \/ disk' = [disk EXCEPT ![n] = {ReplaySnapshot(r)}]
              \/ disk' = [disk EXCEPT ![n] = {ReplaySnapshot(d)}]
              \/ disk' = disk
           /\ UNCHANGED <<seeding, last, lab, docs, boots>>
<1>1. PICK genuine \in battery[n] :
        LET asked == IssueNonce(IssueNonce(IssueNonce(trent[n])))
            replayed == Verified(asked, genuine.msg, genuine.sig)
            session == Signed(replayed, entropy)
            received == [Rebinding(session, IF disturbed THEN <<"noise", genuine.sig.key>>
                                                         ELSE genuine.sig.bits)
                           EXCEPT !.key = session.key]
            bound == IssueNonce(session)
            delivered == Verified(bound, genuine.msg, received)
        IN  /\ trent' = [trent EXCEPT ![n] = IssueNonce(delivered)]
            /\ IF delivered # bound THEN Persist(n, delivered)
               ELSE IF replayed # asked THEN Persist(n, replayed)
               ELSE UNCHANGED disk
            /\ battery' = [battery EXCEPT ![n] = {}]
            /\ UNCHANGED <<seeding, last, lab, docs, boots>>
  BY DEF RunBattery
<1> DEFINE one == IssueNonce(trent[n])
           two == IssueNonce(one)
           asked == IssueNonce(two)
           replayed == Verified(asked, genuine.msg, genuine.sig)
           session == Signed(replayed, entropy)
           bits == IF disturbed THEN <<"noise", genuine.sig.key>> ELSE genuine.sig.bits
           received == [Rebinding(session, bits) EXCEPT !.key = session.key]
           bound == IssueNonce(session)
           delivered == Verified(bound, genuine.msg, received)
           t == IssueNonce(delivered)
<1>2. trent[n] \in Notary(Keys) /\ genuine \in Remembered
  BY DEF Typed
<1>3. asked \in Notary(Keys) /\ Later(asked, trent[n])
  <2>1. one \in Notary(Keys) /\ Later(one, trent[n])
    BY <1>2, IssueLater
  <2> HIDE DEF one
  <2>2. two \in Notary(Keys) /\ Later(two, one)
    BY <2>1, IssueLater
  <2> HIDE DEF two
  <2>3. asked \in Notary(Keys) /\ Later(asked, two)
    BY <2>2, IssueLater
  <2> HIDE DEF asked
  <2>4. QED
    BY <1>2, <2>1, <2>2, <2>3, LaterTransitive
<1>4. replayed \in Notary(Keys) /\ Later(replayed, asked)
  <2> HIDE DEF asked
  <2>1. genuine.sig.window \in Nat /\ genuine.sig.nonce \in Nat
    BY <1>2 DEF Remembered, Signatures
  <2>2. QED
    BY <1>3, <2>1, VerifiedLater
<1>5. session \in Notary(Keys) /\ Later(session, replayed)
  <2> HIDE DEF replayed
  <2>1. QED
    BY <1>4, SignedLater
<1>6. bound \in Notary(Keys) /\ Later(bound, session)
  <2> HIDE DEF session
  <2>1. QED
    BY <1>5, IssueLater
<1>7. delivered \in Notary(Keys) /\ Later(delivered, bound)
  <2>1. received.window = session.window /\ received.nonce = session.nextNonce
    BY DEF Rebinding, Signature
  <2> HIDE DEF bound, session, received
  <2>2. received.window \in Nat /\ received.nonce \in Nat
    BY <1>5, <2>1 DEF Notary
  <2>3. QED
    BY <1>6, <2>2, VerifiedLater
<1>8. t \in Notary(Keys) /\ Later(t, delivered)
  <2> HIDE DEF delivered
  <2>1. QED
    BY <1>7, IssueLater
<1>9. /\ trent' = [trent EXCEPT ![n] = t]
      /\ battery' = [battery EXCEPT ![n] = {}]
      /\ \/ disk' = [disk EXCEPT ![n] = {ReplaySnapshot(replayed)}]
         \/ disk' = [disk EXCEPT ![n] = {ReplaySnapshot(delivered)}]
         \/ disk' = disk
      /\ UNCHANGED <<seeding, last, lab, docs, boots>>
  BY <1>1 DEF Persist
<1> HIDE DEF asked, replayed, session, received, bound, delivered, t
<1>10. Later(replayed, trent[n]) /\ Later(delivered, replayed)
  <2>1. Later(replayed, trent[n])
    BY <1>2, <1>3, <1>4, LaterTransitive
  <2>2. Later(bound, replayed)
    BY <1>4, <1>5, <1>6, LaterTransitive
  <2>3. Later(delivered, replayed)
    BY <1>4, <1>6, <1>7, <2>2, LaterTransitive
  <2>4. QED
    BY <2>1, <2>3
<1>11. QED
  BY <1>4, <1>7, <1>8, <1>9, <1>10

LEMMA RunBatteryLinks ==
  ASSUME LinkInv, NEW n \in Laptops, NEW entropy \in Entropy, NEW disturbed \in BOOLEAN,
         RunBattery(n, entropy, disturbed)
  PROVE  LinkInv'
<1> DEFINE D == IssuedOn(n, docs)
<1>1. Typed /\ trent[n] \in Notary(Keys)
      /\ Linked(trent[n], disk[n], last[n], D, boots, seeding)
  BY DEF LinkInv, Typed
<1>2. PICK r, d, t \in Notary(Keys) :
           /\ Later(r, trent[n]) /\ Later(d, r) /\ Later(t, d)
           /\ trent' = [trent EXCEPT ![n] = t]
           /\ battery' = [battery EXCEPT ![n] = {}]
           /\ \/ disk' = [disk EXCEPT ![n] = {ReplaySnapshot(r)}]
              \/ disk' = [disk EXCEPT ![n] = {ReplaySnapshot(d)}]
              \/ disk' = disk
           /\ UNCHANGED <<seeding, last, lab, docs, boots>>
  BY <1>1, BatteryLater
<1>3. ReplaySnapshot(r) \in Snapshot /\ ReplaySnapshot(d) \in Snapshot
  BY DEF Notary, Snapshot, ReplaySnapshot
<1>4. Typed'
  <2>1. disk' \in [Laptops -> SUBSET Snapshot]
    BY <1>1, <1>2, <1>3 DEF Typed
  <2>2. trent' \in [Laptops -> Notary(Keys)] /\ battery' \in [Laptops -> SUBSET Remembered]
    BY <1>1, <1>2 DEF Typed
  <2>3. QED
    BY <1>1, <1>2, <2>1, <2>2 DEF Typed
<1>5. Linked(r, disk[n], last[n], D, boots, seeding)
  BY <1>1, <1>2, LinkedAdvance
<1>6. Linked(d, disk[n], last[n], D, boots, seeding)
  BY <1>2, <1>5, LinkedAdvance
<1>7. Linked(t, disk[n], last[n], D, boots, seeding)
  BY <1>2, <1>6, LinkedAdvance
<1>8. Linked(t, {ReplaySnapshot(d)}, last[n], D, boots, seeding)
  BY <1>2, <1>6, LinkedPersist, LinkedAdvance
<1>9. Linked(t, {ReplaySnapshot(r)}, last[n], D, boots, seeding)
  <2>1. Linked(d, {ReplaySnapshot(r)}, last[n], D, boots, seeding)
    BY <1>2, <1>5, LinkedPersist, LinkedAdvance
  <2>2. QED
    BY <1>2, <2>1, LinkedAdvance
<1>10. /\ trent'[n] = t
       /\ \/ disk'[n] = {ReplaySnapshot(r)}
          \/ disk'[n] = {ReplaySnapshot(d)}
          \/ disk'[n] = disk[n]
       /\ \A m \in Laptops \ {n} : trent'[m] = trent[m] /\ disk'[m] = disk[m]
  BY <1>1, <1>2 DEF Typed
<1>11. seeding' = seeding /\ last' = last /\ docs' = docs /\ boots' = boots
  BY <1>2
<1>12. Linked(trent'[n], disk'[n], last'[n], IssuedOn(n, docs'), boots', seeding)
  BY <1>7, <1>8, <1>9, <1>10, <1>11
<1>13. docs' \subseteq Issued
  BY <1>11 DEF LinkInv
<1>14. QED
  BY <1>4, <1>10, <1>11, <1>12, <1>13, LinkInvAt

\* qds_setup and a restart of the process.
LEMMA StartedLinks ==
  ASSUME LinkInv, NEW n \in Laptops, NEW params \in Params,
         trent' = [trent EXCEPT ![n] = Started(n, params, boots + 1)],
         boots' = boots + 1, UNCHANGED <<seeding, disk, lab, docs>>,
         last' = [last EXCEPT ![n] = {}],
         battery' = battery \/ battery' = [battery EXCEPT ![n] = {}]
  PROVE  LinkInv'
<1> DEFINE t == Started(n, params, boots + 1)
           D == IssuedOn(n, docs)
<1>1. Typed /\ trent[n] \in Notary(Keys) /\ boots \in Nat
      /\ Linked(trent[n], disk[n], last[n], D, boots, seeding)
  BY DEF LinkInv, Typed
<1>2. t \in Notary(Keys) /\ Linked(t, disk[n], {}, D, boots + 1, seeding)
  BY <1>1, LinkedStarted
<1>3. trent' = [trent EXCEPT ![n] = t]
  OBVIOUS
<1> HIDE DEF t
<1>4. Typed'
  <2>1. battery' \in [Laptops -> SUBSET Remembered] /\ last' \in [Laptops -> SUBSET Remembered]
    BY <1>1 DEF Typed
  <2>2. trent' \in [Laptops -> Notary(Keys)]
    BY <1>1, <1>2, <1>3 DEF Typed
  <2>3. disk' = disk /\ seeding' = seeding /\ boots' = boots + 1
    OBVIOUS
  <2>4. QED
    BY <1>1, <2>1, <2>2, <2>3 DEF Typed
<1>5. /\ trent'[n] = t /\ last'[n] = {}
      /\ \A m \in Laptops \ {n} : trent'[m] = trent[m] /\ last'[m] = last[m]
  BY <1>1, <1>3 DEF Typed
<1>6. seeding' = seeding /\ disk' = disk /\ docs' = docs
  OBVIOUS
<1>7. Linked(trent'[n], disk'[n], last'[n], IssuedOn(n, docs'), boots', seeding)
  BY <1>2, <1>5, <1>6
<1>8. docs' \subseteq Issued
  BY <1>6 DEF LinkInv
<1>9. QED
  BY <1>4, <1>5, <1>6, <1>7, <1>8, LinkInvAt

LEMMA LinkInvInit == Init => LinkInv
<1> SUFFICES ASSUME Init PROVE LinkInv
  OBVIOUS
<1>1. Typed /\ boots = 0 /\ docs = {}
  BY InvInit DEF IInv, Init
<1>2. ASSUME NEW n \in Laptops
      PROVE  Linked(trent[n], disk[n], last[n], IssuedOn(n, docs), boots, seeding)
  <2>1. /\ trent[n] = NewTrent(Key(DefaultParams, 0)) /\ disk[n] = {} /\ last[n] = {}
    BY DEF Init
  <2>2. /\ trent[n].history = <<Genesis>> /\ trent[n].key = Key(DefaultParams, 0)
    BY <2>1 DEF NewTrent
  <2>3. trent[n].key[1] <= boots + 1
    BY <1>1, <2>2 DEF Key
  <2>4. Chained(trent[n])
    BY <2>2 DEF Chained
  <2>5. IssuedOn(n, docs) = {}
    BY <1>1 DEF IssuedOn
  <2>6. QED
    BY <2>1, <2>3, <2>4, <2>5 DEF Linked
<1>3. QED
  BY <1>1, <1>2 DEF LinkInv

LEMMA LinkInvStep == LinkInv /\ [Next]_vars => LinkInv'
<1> SUFFICES ASSUME LinkInv, [Next]_vars PROVE LinkInv'
  OBVIOUS
<1>1. CASE UNCHANGED vars
  BY <1>1 DEF vars, LinkInv, Typed
<1>2. ASSUME NEW n \in Laptops, ReadLast(n) PROVE LinkInv'
  <2>1. /\ Typed /\ battery' = [battery EXCEPT ![n] = last[n]]
        /\ seeding' = seeding /\ trent' = trent /\ disk' = disk /\ last' = last
        /\ docs' = docs /\ boots' = boots
    BY <1>2 DEF LinkInv, ReadLast
  <2>2. Typed'
    BY <2>1 DEF Typed
  <2>3. Linked(trent[n], disk[n], last[n], IssuedOn(n, docs), boots, seeding)
        /\ docs \subseteq Issued
    BY DEF LinkInv
  <2>4. QED
    BY <2>1, <2>2, <2>3, LinkInvAt
<1>3. ASSUME NEW n \in Laptops, NEW params \in Params, Setup(n, params) PROVE LinkInv'
  BY <1>3, StartedLinks DEF Setup
<1>4. ASSUME NEW n \in Laptops, Restart(n) PROVE LinkInv'
  BY <1>4, StartedLinks, ServerAssumption DEF Restart
<1>5. ASSUME Next PROVE LinkInv'
  BY <1>2, <1>3, <1>4, <1>5, LabSignLinks, SealDocumentLinks, RunBatteryLinks DEF Next
<1>6. QED
  BY <1>1, <1>5

\* Every link that a document, a signature or a snapshot of a laptop names stays in
\* the chain of the notaries it belongs to, whether or not snapshots are written.
THEOREM LinksAlwaysKept == Spec => []LinkInv
BY LinkInvInit, LinkInvStep, PTL DEF Spec

-----------------------------------------------------------------------------
(* What the server promises of documents and of the ring. *)

\* Whatever is written or not, and however often the process restarts, a
\* document the snapshot covers opens under its key, and for its content only
\* (trap_check_document looks for the link in a history that restore_replay_state
\* brought back).
THEOREM CoveredDocumentsAlwaysOpen == Spec => []CoveredDocumentsOpen
<1>1. LinkInv => CoveredDocumentsOpen
  <2> SUFFICES ASSUME LinkInv, NEW doc \in docs, doc.sig.key = trent[doc.by].key,
                      \/ \E snap \in disk[doc.by] :
                           \E i \in 1..Len(snap.history) : snap.history[i] = doc.sig.link
                      \/ boots = 0,
                      NEW msg \in Message
               PROVE  Transferable(trent[doc.by], msg, doc.sig) <=> msg = doc.msg
    BY DEF CoveredDocumentsOpen
  <2> DEFINE n == doc.by
             t == trent[n]
  <2>1. n \in Laptops /\ doc \in IssuedOn(n, docs)
    BY DEF LinkInv, Issued, IssuedOn
  <2>2. Linked(t, disk[n], last[n], IssuedOn(n, docs), boots, seeding)
    BY <2>1 DEF LinkInv
  <2>3. Kept(t, doc, boots, seeding)
    BY <2>1, <2>2 DEF Linked
  <2>4. LocallyMinted(t, doc.sig)
    <3>1. CASE boots = 0 \/ seeding # "pinned"
      BY <2>3, <3>1 DEF Kept
    <3>2. CASE boots # 0 /\ seeding = "pinned"
      <4>1. PICK snap \in disk[n] : LocallyMinted(snap, doc.sig)
        BY <3>2 DEF LocallyMinted
      <4>2. Knows(t, snap)
        BY <2>2, <3>2 DEF Linked
      <4>3. QED
        BY <4>1, <4>2, MintedLater
    <3>3. QED
      BY <3>1, <3>2
  <2>5. doc.sig.bits = <<doc.msg, t.key>> /\ TrapCheckDocument(t, doc.sig)
    BY <2>3, <2>4 DEF Kept, Genuine, TrapCheckDocument
  <2>6. QED
    BY <2>5 DEF Transferable, StatisticsMatch
<1>2. QED
  BY <1>1, LinksAlwaysKept, PTL

\* A member of the ring vouches for its copy of the last signature exactly when the
\* link flipped none of its bits, and refuses it when it flipped too many.
LEMMA MemberVerdictExact ==
  ASSUME NEW t \in Notary(Keys), Chained(t), NEW x, Shown(t, x), x.msg \in Message,
         NEW noise \in LinkNoise
  PROVE  MemberVerdict(t, x.msg, MemberCopy(t, x.sig, noise))
           = IF noise = "few" THEN "ACC0" ELSE IF noise = "many" THEN "REJ" ELSE "ACC1"
<1>1. x.sig.bits = <<x.msg, t.key>> /\ x.sig.key = t.key /\ TrapCheckDocument(t, x.sig)
  BY DEF Shown, Genuine, TrapCheckDocument
<1>2. CASE noise = "none"
  BY <1>1, <1>2 DEF MemberCopy, Transferable, StatisticsMatch, MemberVerdict
<1>3. CASE noise # "none"
  <2> DEFINE bits == DisturbedBits(x.sig, noise)
             bound == Rebinding(t, bits)
             copy == MemberCopy(t, x.sig, noise)
  <2>1. copy = [bound EXCEPT !.nonce = x.sig.nonce, !.tag.nonce = x.sig.nonce, !.key = x.sig.key]
    BY <1>3 DEF MemberCopy
  <2>2. LET prev == IF Len(t.history) >= 2 THEN t.history[Len(t.history) - 1] ELSE Genesis
        IN  bound = [bits |-> bits, nonce |-> t.nextNonce, key |-> t.key,
                     window |-> t.window, entropy |-> t.frontier, prev |-> prev,
                     link |-> Link(prev, t.window, t.frontier),
                     tag |-> Tag(bits, t.nextNonce, t.key, t.window, t.frontier)]
    BY DEF Rebinding, Signature
  <2> DEFINE prev == t.history[Len(t.history) - 1]
             link == Link(prev, t.window, t.frontier)
  <2>3. link = t.history[Len(t.history)] /\ Len(t.history) \in 1..Len(t.history)
    <3>1. t.history \in Seq(ChainLink)
      BY DEF Notary, History
    <3>2. QED
      BY <3>1 DEF Chained, Shown
  <2>4. /\ copy.bits = bits /\ copy.nonce = x.sig.nonce /\ copy.key = t.key
        /\ copy.window = t.window /\ copy.entropy = t.frontier
        /\ copy.prev = prev /\ copy.link = link
        /\ copy.tag = Tag(bits, x.sig.nonce, t.key, t.window, t.frontier)
    <3>1. Len(t.history) >= 2
      BY DEF Shown
    <3> HIDE DEF bits, link, prev
    <3>2. bound = [bits |-> bits, nonce |-> t.nextNonce, key |-> t.key,
                   window |-> t.window, entropy |-> t.frontier, prev |-> prev, link |-> link,
                   tag |-> Tag(bits, t.nextNonce, t.key, t.window, t.frontier)]
      BY <2>2, <3>1 DEF prev, link
    <3> HIDE DEF bound, copy
    <3>3. QED
      BY <1>1, <2>1, <3>2 DEF Tag
  <2> HIDE DEF copy, link, prev
  <2>5. TrapCheckDocument(t, copy)
    <3>1. TagOk(copy) /\ StructurallySound(copy)
      BY <2>4 DEF TagOk, StructurallySound, link
    <3>2. LocallyMinted(t, copy)
      BY <2>3, <2>4 DEF LocallyMinted
    <3>3. QED
      BY <3>1, <3>2 DEF TrapCheckDocument
  <2>6. CASE noise = "spares"
    <3>1. bits = <<x.msg, t.key>>
      BY <1>1, <2>6 DEF DisturbedBits
    <3>2. Transferable(t, x.msg, copy)
      BY <2>4, <2>5, <3>1 DEF Transferable, StatisticsMatch
    <3>3. QED
      BY <2>6, <3>2 DEF MemberVerdict, copy
  <2>7. CASE noise \in {"few", "many"}
    <3>1. bits = <<noise, t.key>> /\ x.msg # noise
      BY <1>1, <2>7, ServerAssumption DEF DisturbedBits
    <3>2. bits # <<x.msg, t.key>>
      BY <3>1
    <3>3. ~Transferable(t, x.msg, copy)
      BY <2>4, <3>2 DEF Transferable, StatisticsMatch
    <3>4. copy.bits = <<"few", t.key>> <=> noise = "few"
      BY <2>4, <2>7, <3>1
    <3>5. QED
      BY <2>4, <2>5, <2>7, <3>3, <3>4 DEF MemberVerdict, copy
  <2>8. QED
    BY <1>3, <2>6, <2>7 DEF LinkNoise
<1>4. QED
  BY <1>2, <1>3

\* Of m members, k are left exactly when at most m - k were lost.
LEMMA Remaining ==
  ASSUME NEW m \in Nat, NEW F \in SUBSET (1..m), NEW k \in Nat
  PROVE  Cardinality((1..m) \ F) >= k <=> Cardinality(F) <= m - k
<1>1. IsFiniteSet(1..m) /\ Cardinality(1..m) = m
  <2>1. IsFiniteSet(1..m) /\ Cardinality(1..m) = IF 1 > m THEN 0 ELSE m - 1 + 1
    <3>1. 1 \in Int /\ m \in Int
      OBVIOUS
    <3>2. QED
      BY <3>1, FS_Interval
  <2>2. QED
    BY <2>1
<1>2. IsFiniteSet(F) /\ Cardinality(F) \in Nat
  BY <1>1, FS_Subset, FS_CardinalityType
<1>3. Cardinality((1..m) \ F) = Cardinality(1..m) - Cardinality((1..m) \cap F)
  BY <1>1, FS_Difference
<1>4. (1..m) \cap F = F
  OBVIOUS
<1>5. Cardinality((1..m) \ F) = m - Cardinality(F)
  BY <1>1, <1>3, <1>4
<1>6. ASSUME NEW c \in Nat PROVE m - c >= k <=> c <= m - k
  OBVIOUS
<1>7. QED
  BY <1>2, <1>5, <1>6

\* consensus_ring's two verdicts for the last signature, for rings of any size: they
\* say no more and no less than how many copies the links disturbed, and whether
\* within the tolerance, whatever was signed, sealed, attacked or persisted since.
THEOREM RingAlwaysExact == Spec => []RingVerdictExact
<1>1. LinkInv => RingVerdictExact
  <2> SUFFICES ASSUME LinkInv, NEW n \in Laptops, NEW r \in last[n],
                      NEW links \in [1..RingSize -> LinkNoise], NEW k \in 1..(RingSize + 1)
               PROVE  /\ QuorumOk(trent[n], r, links, k)
                            <=> Cardinality({ i \in 1..RingSize : links[i] \in {"many"} })
                                  <= RingSize - k
                      /\ TransferGrade(trent[n], r, links, k)
                            <=> Cardinality({ i \in 1..RingSize : links[i] \in {"few", "many"} })
                                  <= RingSize - k
    BY DEF RingVerdictExact
  <2> DEFINE t == trent[n]
             verdict(i) == MemberVerdict(t, r.msg, MemberCopy(t, r.sig, links[i]))
             F == { i \in 1..RingSize : links[i] \in {"many"} }
             G == { i \in 1..RingSize : links[i] \in {"few", "many"} }
  <2>1. t \in Notary(Keys) /\ r.msg \in Message
    BY DEF LinkInv, Typed, Remembered
  <2>2. Chained(t) /\ Shown(t, r)
    BY DEF LinkInv, Linked
  <2>3. ASSUME NEW i \in 1..RingSize
        PROVE  verdict(i) = IF links[i] = "few" THEN "ACC0"
                            ELSE IF links[i] = "many" THEN "REJ" ELSE "ACC1"
    <3>1. links[i] \in LinkNoise
      OBVIOUS
    <3>2. QED
      BY <2>1, <2>2, <3>1, MemberVerdictExact
  <2>4. /\ Members(t, r, links, {"ACC1", "ACC0"})
             = { i \in 1..RingSize : verdict(i) \in {"ACC1", "ACC0"} }
        /\ Members(t, r, links, {"ACC1"}) = { i \in 1..RingSize : verdict(i) \in {"ACC1"} }
    BY DEF Members
  <2> HIDE DEF verdict
  <2>5. /\ Members(t, r, links, {"ACC1", "ACC0"}) = (1..RingSize) \ F
        /\ Members(t, r, links, {"ACC1"}) = (1..RingSize) \ G
    BY <2>3, <2>4
  <2>6. /\ QuorumOk(t, r, links, k) <=> Cardinality((1..RingSize) \ F) >= k
        /\ TransferGrade(t, r, links, k) <=> Cardinality((1..RingSize) \ G) >= k
    BY <2>5 DEF QuorumOk, TransferGrade
  <2>7. F \in SUBSET (1..RingSize) /\ G \in SUBSET (1..RingSize) /\ RingSize \in Nat /\ k \in Nat
    BY ServerAssumption
  <2> HIDE DEF F, G
  <2>8. /\ Cardinality((1..RingSize) \ F) >= k <=> Cardinality(F) <= RingSize - k
        /\ Cardinality((1..RingSize) \ G) >= k <=> Cardinality(G) <= RingSize - k
    BY <2>7, Remaining
  <2>9. QED
    BY <2>6, <2>8 DEF F, G
<1>2. QED
  BY <1>1, LinksAlwaysKept, PTL

-----------------------------------------------------------------------------
(***************************************************************************)
(* What was accepted once stays dead, as long as no write of the snapshot  *)
(* fails: while the key lives its window is in the registry, and with a    *)
(* pinned seed the file knows it too.                                      *)
(***************************************************************************)
Spent(t, d, x, k, sd) ==
  /\ x.sig.key = t.key => x.sig.window \in t.consumed
  /\ x.sig.key[1] \in 0..(k + 1)
  /\ sd = "pinned" => d # {} /\ \A snap \in d : x.sig.window \in snap.consumed

\* The signatures L of the laboratory and D of the documents of one laptop.
Buried(t, d, L, D, k, sd) ==
  /\ \A x \in L : Spent(t, d, x, k, sd)
  /\ k = 0 => \A x \in D : x.sig.window \in t.consumed

SpentInv ==
  /\ IInv /\ LinkInv
  /\ \A s \in lab : s.by \in Laptops
  /\ \A n \in Laptops :
       Buried(trent[n], disk[n], IssuedOn(n, lab), IssuedOn(n, docs), boots, seeding)

\* The check a notary makes of the session it has just signed fills its window.
LEMMA SessionSpent ==
  ASSUME NEW t, Sound(t), NEW msg \in Message, NEW entropy \in Entropy
  PROVE  LET sig == NextSignature(t, msg, entropy)
         IN  sig.window \in Verified(Signed(t, entropy), msg, sig).consumed
<1> DEFINE sig == NextSignature(t, msg, entropy)
           s == Signed(t, entropy)
<1>1. Accepts(s, msg, sig)
  BY SoundAcceptsNext
<1>2. s \in Notary(Keys)
  BY SignedFields DEF Sound
<1> HIDE DEF sig, s
<1>3. Verified(s, msg, sig).consumed = s.consumed \cup {sig.window}
  BY <1>1, <1>2 DEF Verified, Accepted, Notary
<1>4. QED
  BY <1>3 DEF sig, s

LEMMA BuriedAdvance ==
  ASSUME NEW t, NEW u, NEW d, NEW L, NEW D, NEW k, NEW sd,
         Buried(t, d, L, D, k, sd), Later(u, t)
  PROVE  Buried(u, d, L, D, k, sd)
<1>1. u.key = t.key /\ t.consumed \subseteq u.consumed
  BY DEF Later, Knows
<1>2. QED
  BY <1>1 DEF Buried, Spent

LEMMA BuriedPersist ==
  ASSUME NEW t, NEW d, NEW l, NEW L, NEW D, NEW k, NEW sd,
         Buried(t, d, L, D, k, sd), Linked(t, d, l, D, k, sd)
  PROVE  Buried(t, {ReplaySnapshot(t)}, L, D, k, sd)
<1>1. ReplaySnapshot(t).consumed = t.consumed
  BY DEF ReplaySnapshot
<1>2. ASSUME NEW x \in L, sd = "pinned" PROVE x.sig.window \in t.consumed
  <2>1. PICK snap \in d : x.sig.window \in snap.consumed
    BY <1>2 DEF Buried, Spent
  <2>2. snap.consumed \subseteq t.consumed
    BY <1>2 DEF Linked, Knows
  <2>3. QED
    BY <2>1, <2>2
<1>3. QED
  BY <1>1, <1>2 DEF Buried, Spent

LEMMA BuriedStarted ==
  ASSUME LinkInv, NEW n \in Laptops, NEW L, NEW D, NEW params \in Params,
         Buried(trent[n], disk[n], L, D, boots, seeding)
  PROVE  Buried(Started(n, params, boots + 1), disk[n], L, D, boots + 1, seeding)
<1> DEFINE t == Started(n, params, boots + 1)
<1>1. Typed /\ boots \in Nat
      /\ Linked(trent[n], disk[n], last[n], IssuedOn(n, docs), boots, seeding)
  BY DEF LinkInv, Typed
<1>2. /\ t.key = Key(params, boots + 1)
      /\ Linked(t, disk[n], {}, IssuedOn(n, docs), boots + 1, seeding)
  BY <1>1, LinkedStarted
<1> HIDE DEF t
<1>3. t.key[1] = IF seeding = "pinned" THEN 0 ELSE boots + 1 + 1
  BY <1>2 DEF Key
<1>4. ASSUME NEW x \in L PROVE Spent(t, disk[n], x, boots + 1, seeding)
  <2>1. Spent(trent[n], disk[n], x, boots, seeding)
    BY DEF Buried
  <2>2. x.sig.key[1] \in 0..(boots + 1 + 1)
    BY <1>1, <2>1 DEF Spent
  <2>3. x.sig.key = t.key => x.sig.window \in t.consumed
    <3>1. CASE seeding = "pinned"
      <4>1. PICK snap \in disk[n] : x.sig.window \in snap.consumed
        BY <2>1, <3>1 DEF Spent
      <4>2. snap.consumed \subseteq t.consumed
        BY <1>2, <3>1 DEF Linked, Knows
      <4>3. QED
        BY <4>1, <4>2
    <3>2. CASE seeding # "pinned"
      <4>1. x.sig.key[1] \in 0..(boots + 1)
        BY <2>1 DEF Spent
      <4>2. QED
        BY <1>1, <1>3, <3>2, <4>1
    <3>3. QED
      BY <3>1, <3>2
  <2>4. QED
    BY <2>1, <2>2, <2>3 DEF Spent
<1>5. boots + 1 # 0
  BY <1>1
<1>6. QED
  BY <1>4, <1>5 DEF Buried, t

LEMMA BuriedElsewhere ==
  ASSUME NEW t, NEW d, NEW L, NEW D, NEW k \in Nat, NEW sd, Buried(t, d, L, D, k, sd)
  PROVE  Buried(t, d, L, D, k + 1, sd)
<1>1. k + 1 # 0
  OBVIOUS
<1>2. ASSUME NEW x \in L PROVE Spent(t, d, x, k + 1, sd)
  <2>1. Spent(t, d, x, k, sd)
    BY DEF Buried
  <2>2. x.sig.key[1] \in 0..(k + 1 + 1)
    BY <2>1 DEF Spent
  <2>3. QED
    BY <2>1, <2>2 DEF Spent
<1>3. QED
  BY <1>1, <1>2 DEF Buried

\* A step of one laptop leaves the others as they are.
LEMMA SpentInvAt ==
  ASSUME SpentInv, IInv', LinkInv', NEW n \in Laptops,
         \A m \in Laptops \ {n} :
           /\ trent'[m] = trent[m] /\ disk'[m] = disk[m]
           /\ IssuedOn(m, lab') = IssuedOn(m, lab) /\ IssuedOn(m, docs') = IssuedOn(m, docs),
         \A s \in lab' : s.by \in Laptops,
         boots' = boots \/ boots' = boots + 1, seeding' = seeding,
         Buried(trent'[n], disk'[n], IssuedOn(n, lab'), IssuedOn(n, docs'), boots', seeding)
  PROVE  SpentInv'
<1>1. ASSUME NEW m \in Laptops
      PROVE  Buried(trent'[m], disk'[m], IssuedOn(m, lab'), IssuedOn(m, docs'), boots', seeding')
  <2>1. CASE m = n
    BY <2>1
  <2>2. CASE m # n
    <3>1. Buried(trent[m], disk[m], IssuedOn(m, lab), IssuedOn(m, docs), boots, seeding)
          /\ boots \in Nat
      BY DEF SpentInv, LinkInv, Typed
    <3>2. Buried(trent[m], disk[m], IssuedOn(m, lab), IssuedOn(m, docs), boots', seeding)
      BY <3>1, BuriedElsewhere
    <3>3. QED
      BY <2>2, <3>2
  <2>3. QED
    BY <2>1, <2>2
<1>2. QED
  BY <1>1 DEF SpentInv, IssuedOn

LEMMA LabSignSpent ==
  ASSUME PersistMayFail = FALSE, SpentInv, IInv', LinkInv', NEW n \in Laptops,
         NEW msg \in Message, NEW entropy \in Entropy, LabSign(n, msg, entropy)
  PROVE  SpentInv'
<1> DEFINE sig == NextSignature(trent[n], msg, entropy)
           t == Verified(Signed(trent[n], entropy), msg, sig)
           x == [by |-> n, msg |-> msg, sig |-> sig]
           L == IssuedOn(n, lab)
           D == IssuedOn(n, docs)
<1>1. /\ Typed /\ trent[n] \in Notary(Keys) /\ boots \in Nat /\ Sound(trent[n])
      /\ Linked(trent[n], disk[n], last[n], D, boots, seeding)
      /\ Buried(trent[n], disk[n], L, D, boots, seeding)
  BY DEF SpentInv, LinkInv, IInv, Fits, Typed
<1>2. /\ t \in Notary(Keys) /\ Later(t, trent[n]) /\ sig \in Signatures(Keys)
      /\ sig.key = trent[n].key /\ sig.window \in t.consumed
  BY <1>1, SessionLater, SessionSpent, NextSignatureType
<1>3. /\ trent' = [trent EXCEPT ![n] = t]
      /\ disk' = [disk EXCEPT ![n] = {ReplaySnapshot(t)}]
      /\ lab' = lab \cup {x}
      /\ seeding' = seeding /\ boots' = boots /\ docs' = docs
  BY DEF LabSign, Persist
<1>4. x.by = n /\ x.sig = sig
  OBVIOUS
<1> HIDE DEF sig, t, x
<1>5. Buried(t, {ReplaySnapshot(t)}, L, D, boots, seeding)
  <2>1. Buried(t, disk[n], L, D, boots, seeding)
    BY <1>1, <1>2, BuriedAdvance
  <2>2. Linked(t, disk[n], last[n], D, boots, seeding)
    BY <1>1, <1>2, LinkedAdvance
  <2>3. QED
    BY <2>1, <2>2, BuriedPersist
<1>6. Spent(t, {ReplaySnapshot(t)}, x, boots, seeding)
  <2>1. ReplaySnapshot(t).consumed = t.consumed
    BY DEF ReplaySnapshot
  <2>2. sig.key[1] \in 0..(boots + 1)
    BY <1>1, <1>2 DEF Linked, Notary, Keys
  <2>3. QED
    BY <1>2, <1>4, <2>1, <2>2 DEF Spent
<1>7. Buried(t, {ReplaySnapshot(t)}, L \cup {x}, D, boots, seeding)
  BY <1>5, <1>6 DEF Buried
<1>8. /\ IssuedOn(n, lab') = L \cup {x}
      /\ \A m \in Laptops \ {n} : IssuedOn(m, lab') = IssuedOn(m, lab)
  BY <1>3, <1>4 DEF IssuedOn
<1>9. /\ trent'[n] = t /\ disk'[n] = {ReplaySnapshot(t)}
      /\ \A m \in Laptops \ {n} : trent'[m] = trent[m] /\ disk'[m] = disk[m]
  BY <1>1, <1>3 DEF Typed
<1>10. Buried(trent'[n], disk'[n], IssuedOn(n, lab'), IssuedOn(n, docs'), boots', seeding)
  BY <1>3, <1>7, <1>8, <1>9
<1>11. \A s \in lab' : s.by \in Laptops
  BY <1>3, <1>4 DEF SpentInv
<1>12. QED
  BY <1>3, <1>8, <1>9, <1>10, <1>11, SpentInvAt

LEMMA SealDocumentSpent ==
  ASSUME SpentInv, IInv', LinkInv', NEW n \in Laptops,
         NEW msg \in Message, NEW entropy \in Entropy, SealDocument(n, msg, entropy)
  PROVE  SpentInv'
<1> DEFINE sig == NextSignature(trent[n], msg, entropy)
           t == Verified(Signed(trent[n], entropy), msg, sig)
           x == [by |-> n, msg |-> msg, sig |-> sig]
           L == IssuedOn(n, lab)
           D == IssuedOn(n, docs)
<1>1. /\ Typed /\ trent[n] \in Notary(Keys) /\ Sound(trent[n])
      /\ Buried(trent[n], disk[n], L, D, boots, seeding)
  BY DEF SpentInv, LinkInv, IInv, Fits, Typed
<1>2. Later(t, trent[n]) /\ sig.window \in t.consumed
  BY <1>1, SessionLater, SessionSpent
<1>3. /\ trent' = [trent EXCEPT ![n] = t]
      /\ docs' = docs \cup {x}
      /\ seeding' = seeding /\ disk' = disk /\ lab' = lab /\ boots' = boots
  BY DEF SealDocument
<1>4. x.by = n /\ x.sig = sig
  OBVIOUS
<1> HIDE DEF sig, t, x
<1>5. Buried(t, disk[n], L, D \cup {x}, boots, seeding)
  <2>1. Buried(t, disk[n], L, D, boots, seeding)
    BY <1>1, <1>2, BuriedAdvance
  <2>2. QED
    BY <1>2, <1>4, <2>1 DEF Buried
<1>6. /\ IssuedOn(n, docs') = D \cup {x}
      /\ \A m \in Laptops \ {n} : IssuedOn(m, docs') = IssuedOn(m, docs)
  BY <1>3, <1>4 DEF IssuedOn
<1>7. trent'[n] = t /\ \A m \in Laptops \ {n} : trent'[m] = trent[m]
  BY <1>1, <1>3 DEF Typed
<1>8. Buried(trent'[n], disk'[n], IssuedOn(n, lab'), IssuedOn(n, docs'), boots', seeding)
  BY <1>3, <1>5, <1>6, <1>7
<1>9. QED
  BY <1>3, <1>6, <1>7, <1>8, SpentInvAt DEF SpentInv

LEMMA RunBatterySpent ==
  ASSUME SpentInv, IInv', LinkInv', NEW n \in Laptops,
         NEW entropy \in Entropy, NEW disturbed \in BOOLEAN, RunBattery(n, entropy, disturbed)
  PROVE  SpentInv'
<1> DEFINE L == IssuedOn(n, lab)
           D == IssuedOn(n, docs)
           g == last[n]
<1>1. /\ Typed /\ trent[n] \in Notary(Keys)
      /\ Linked(trent[n], disk[n], g, D, boots, seeding)
      /\ Buried(trent[n], disk[n], L, D, boots, seeding)
  BY DEF SpentInv, LinkInv, Typed
<1>2. PICK r, d, t \in Notary(Keys) :
           /\ Later(r, trent[n]) /\ Later(d, r) /\ Later(t, d)
           /\ trent' = [trent EXCEPT ![n] = t]
           /\ battery' = [battery EXCEPT ![n] = {}]
           /\ \/ disk' = [disk EXCEPT ![n] = {ReplaySnapshot(r)}]
              \/ disk' = [disk EXCEPT ![n] = {ReplaySnapshot(d)}]
              \/ disk' = disk
           /\ UNCHANGED <<seeding, last, lab, docs, boots>>
  BY <1>1, BatteryLater
<1> HIDE DEF L, D, g
<1>3. Linked(r, disk[n], g, D, boots, seeding) /\ Buried(r, disk[n], L, D, boots, seeding)
  BY <1>1, <1>2, LinkedAdvance, BuriedAdvance
<1>4. Linked(d, disk[n], g, D, boots, seeding) /\ Buried(d, disk[n], L, D, boots, seeding)
  BY <1>2, <1>3, LinkedAdvance, BuriedAdvance
<1>5. Buried(t, disk[n], L, D, boots, seeding)
  BY <1>2, <1>4, BuriedAdvance
<1>6. Buried(t, {ReplaySnapshot(d)}, L, D, boots, seeding)
  BY <1>2, <1>4, BuriedPersist, BuriedAdvance
<1>7. Buried(t, {ReplaySnapshot(r)}, L, D, boots, seeding)
  <2>1. Buried(d, {ReplaySnapshot(r)}, L, D, boots, seeding)
    BY <1>2, <1>3, BuriedPersist, BuriedAdvance
  <2>2. QED
    BY <1>2, <2>1, BuriedAdvance
<1>8. /\ trent'[n] = t
      /\ \/ disk'[n] = {ReplaySnapshot(r)}
         \/ disk'[n] = {ReplaySnapshot(d)}
         \/ disk'[n] = disk[n]
      /\ \A m \in Laptops \ {n} : trent'[m] = trent[m] /\ disk'[m] = disk[m]
  BY <1>1, <1>2 DEF Typed
<1>9. seeding' = seeding /\ lab' = lab /\ docs' = docs /\ boots' = boots
  BY <1>2
<1>10. Buried(trent'[n], disk'[n], IssuedOn(n, lab'), IssuedOn(n, docs'), boots', seeding)
  BY <1>5, <1>6, <1>7, <1>8, <1>9 DEF L, D
<1>11. QED
  BY <1>8, <1>9, <1>10, SpentInvAt DEF SpentInv

LEMMA StartedSpent ==
  ASSUME SpentInv, IInv', LinkInv', NEW n \in Laptops, NEW params \in Params,
         trent' = [trent EXCEPT ![n] = Started(n, params, boots + 1)],
         boots' = boots + 1, UNCHANGED <<seeding, disk, lab, docs>>
  PROVE  SpentInv'
<1> DEFINE t == Started(n, params, boots + 1)
<1>1. /\ Typed /\ LinkInv
      /\ Buried(trent[n], disk[n], IssuedOn(n, lab), IssuedOn(n, docs), boots, seeding)
  BY DEF SpentInv, LinkInv
<1>2. Buried(t, disk[n], IssuedOn(n, lab), IssuedOn(n, docs), boots + 1, seeding)
  BY <1>1, BuriedStarted
<1>3. trent' = [trent EXCEPT ![n] = t]
  OBVIOUS
<1> HIDE DEF t
<1>4. trent'[n] = t /\ \A m \in Laptops \ {n} : trent'[m] = trent[m]
  BY <1>1, <1>3 DEF Typed
<1>5. seeding' = seeding /\ disk' = disk /\ lab' = lab /\ docs' = docs
  OBVIOUS
<1>6. Buried(trent'[n], disk'[n], IssuedOn(n, lab'), IssuedOn(n, docs'), boots', seeding)
  BY <1>2, <1>4, <1>5
<1>7. QED
  BY <1>4, <1>5, <1>6, SpentInvAt DEF SpentInv

LEMMA SpentInvInit == Init => SpentInv
<1> SUFFICES ASSUME Init PROVE SpentInv
  OBVIOUS
<1>1. lab = {} /\ docs = {}
  BY DEF Init
<1>2. \A n \in Laptops : IssuedOn(n, lab) = {} /\ IssuedOn(n, docs) = {}
  BY <1>1 DEF IssuedOn
<1>3. \A n \in Laptops :
        Buried(trent[n], disk[n], IssuedOn(n, lab), IssuedOn(n, docs), boots, seeding)
  BY <1>2 DEF Buried
<1>4. QED
  BY <1>1, <1>3, InvInit, LinkInvInit DEF SpentInv

LEMMA SpentInvStep ==
  ASSUME PersistMayFail = FALSE, SpentInv, [Next]_vars
  PROVE  SpentInv'
<1>1. IInv' /\ LinkInv'
  BY InvStep, LinkInvStep DEF SpentInv
<1>2. CASE UNCHANGED vars
  <2>1. /\ trent' = trent /\ disk' = disk /\ lab' = lab /\ docs' = docs
        /\ boots' = boots /\ seeding' = seeding
    BY <1>2 DEF vars
  <2>2. QED
    BY <1>1, <2>1 DEF SpentInv, IssuedOn
<1>3. ASSUME NEW n \in Laptops, ReadLast(n) PROVE SpentInv'
  <2>1. /\ trent' = trent /\ disk' = disk /\ lab' = lab /\ docs' = docs
        /\ boots' = boots /\ seeding' = seeding
    BY <1>3 DEF ReadLast
  <2>2. QED
    BY <1>1, <2>1 DEF SpentInv, IssuedOn
<1>4. ASSUME NEW n \in Laptops, NEW params \in Params, Setup(n, params) PROVE SpentInv'
  BY <1>1, <1>4, StartedSpent DEF Setup
<1>5. ASSUME NEW n \in Laptops, Restart(n) PROVE SpentInv'
  BY <1>1, <1>5, StartedSpent, ServerAssumption DEF Restart
<1>6. ASSUME Next PROVE SpentInv'
  BY <1>1, <1>3, <1>4, <1>5, <1>6, LabSignSpent, SealDocumentSpent, RunBatterySpent DEF Next
<1>7. QED
  BY <1>2, <1>6

\* If no write of the snapshot fails, no restart and no new notary re-arms a
\* laboratory signature: it is never accepted again on its laptop, under any
\* claim; nor, while the first notary runs, is the signature of a document
\* (qds_sign persists the registries after every acceptance).
THEOREM SpentSignaturesAlwaysDead ==
  ASSUME PersistMayFail = FALSE
  PROVE  Spec => []SpentSignaturesStayDead
<1>1. Init => SpentInv
  BY SpentInvInit
<1>2. SpentInv /\ [Next]_vars => SpentInv'
  BY SpentInvStep
<1>3. SpentInv => SpentSignaturesStayDead
  <2> SUFFICES ASSUME SpentInv, NEW s \in lab \cup { d \in docs : boots = 0 }, NEW msg \in Message,
                      Accepts(trent[s.by], msg, s.sig)
               PROVE  FALSE
    BY DEF SpentSignaturesStayDead
  <2>1. s.sig.key = trent[s.by].key /\ s.sig.window \notin trent[s.by].consumed
    BY DEF Accepts, TrapCheck
  <2>2. s.by \in Laptops
    BY DEF SpentInv, LinkInv, Issued
  <2>3. \/ s \in IssuedOn(s.by, lab)
        \/ boots = 0 /\ s \in IssuedOn(s.by, docs)
    BY DEF IssuedOn
  <2>4. s.sig.window \in trent[s.by].consumed
    BY <2>1, <2>2, <2>3 DEF SpentInv, Buried, Spent
  <2>5. QED
    BY <2>1, <2>4
<1>4. QED
  BY <1>1, <1>2, <1>3, PTL DEF Spec
=============================================================================
