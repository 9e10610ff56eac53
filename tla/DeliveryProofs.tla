--------------------------- MODULE DeliveryProofs ---------------------------
(***************************************************************************)
(* Proofs about what travels between machines.                             *)
(*                                                                         *)
(* QdsWire: no laptop accepts a window or a nonce twice, and, where one    *)
(* laptop holds the seed, a delayed genuine signature keeps being accepted *)
(* until its window is filled or the horizon has passed.                   *)
(*                                                                         *)
(* RingDelivery, for any accounts, rings, handlers and demands that        *)
(* clients bring: what is added to a tally counts acceptances, no member   *)
(* twice; past the gate of a copy, who was missing from its k when it      *)
(* arrived had accepted; and the tally of a ring's document is shared.     *)
(***************************************************************************)
EXTENDS QdsWire, RingDelivery, SequenceTheorems, FiniteSetTheorems, TLAPS

-----------------------------------------------------------------------------
(***************************************************************************)
(* The wire between notaries.                                              *)
(***************************************************************************)

Keys == {SeedKey}
SentRecord == [by : Notaries, msg : Message, sig : Signatures(Keys)]

\* The chain of a notary has one link for each window after genesis, and the
\* last one binds the frontier.
ChainSound(t) ==
  /\ t \in Notary(Keys)
  /\ Len(t.history) = t.window + 1
  /\ t.window > 0 => t.history[t.window + 1] = Link(t.history[t.window], t.window, t.frontier)

\* What was sent is what a notary made: bound by its tag and its link, about
\* its own message, behind the counters of the notary that made it.
SentSound(s) ==
  /\ s \in SentRecord
  /\ TagOk(s.sig) /\ StructurallySound(s.sig)
  /\ s.sig.bits = <<s.msg, SeedKey>>
  /\ s.sig.nonce < trent[s.by].nextNonce
  /\ s.sig.window <= trent[s.by].window
  /\ s.sig.window > 0 => s.sig.link = trent[s.by].history[s.sig.window + 1]

\* The registries of a notary hold exactly what it accepted.
RegistriesMatch(n) ==
  /\ trent[n].consumed = { accepts[n][i][1] : i \in 1..Len(accepts[n]) }
  /\ trent[n].used = { accepts[n][i][2] : i \in 1..Len(accepts[n]) }

\* What a notary accepted was sent.
AcceptedWasSent(n) ==
  \A i \in 1..Len(accepts[n]) : \E s \in wire : accepts[n][i] = <<s.sig.window, s.sig.nonce>>

\* A notary binds a nonce to one window only.
NonceBindsWindow ==
  \A r, s \in wire :
    r.by = s.by /\ r.sig.nonce = s.sig.nonce => r.sig.window = s.sig.window

WireInv ==
  /\ trent \in [Notaries -> Notary(Keys)]
  /\ accepts \in [Notaries -> Seq(Nat \X Nat)]
  /\ \A n \in Notaries : ChainSound(trent[n]) /\ RegistriesMatch(n) /\ AcceptedWasSent(n)
  /\ \A s \in wire : SentSound(s)
  /\ NonceBindsWindow
  /\ AcceptedOnce

-----------------------------------------------------------------------------
(* The operators of the notary. *)

\* What Append leaves alone and what it adds.
LEMMA AppendFacts ==
  ASSUME NEW S, NEW h \in Seq(S), NEW e \in S
  PROVE  /\ Append(h, e) \in Seq(S) /\ Len(Append(h, e)) = Len(h) + 1
         /\ Append(h, e)[Len(h) + 1] = e
         /\ \A i \in 1..Len(h) : Append(h, e)[i] = h[i]
OBVIOUS

\* The k-th components of a sequence of tuples, after one more was appended.
LEMMA ComponentsGrow ==
  ASSUME NEW h, NEW g, NEW e, NEW k,
         Len(h) \in Nat, Len(g) = Len(h) + 1, g[Len(h) + 1] = e,
         \A i \in 1..Len(h) : g[i] = h[i]
  PROVE  { g[i][k] : i \in 1..Len(g) } = { h[i][k] : i \in 1..Len(h) } \cup {e[k]}
<1>1. ASSUME NEW w \in { g[i][k] : i \in 1..Len(g) }
      PROVE  w \in { h[i][k] : i \in 1..Len(h) } \cup {e[k]}
  <2>1. PICK i \in 1..Len(g) : w = g[i][k]
    BY <1>1
  <2>2. CASE i = Len(h) + 1
    BY <2>1, <2>2
  <2>3. CASE i # Len(h) + 1
    <3>1. i \in 1..Len(h) /\ g[i] = h[i]
      BY <2>3
    <3>2. QED
      BY <2>1, <3>1
  <2>4. QED
    BY <2>2, <2>3
<1>2. ASSUME NEW w \in { h[i][k] : i \in 1..Len(h) } \cup {e[k]}
      PROVE  w \in { g[i][k] : i \in 1..Len(g) }
  <2>1. CASE w = e[k]
    <3>1. Len(h) + 1 \in 1..Len(g) /\ w = g[Len(h) + 1][k]
      BY <2>1
    <3>2. QED
      BY <3>1
  <2>2. CASE w \in { h[i][k] : i \in 1..Len(h) }
    <3>1. PICK i \in 1..Len(h) : w = h[i][k]
      BY <2>2
    <3>2. i \in 1..Len(g) /\ w = g[i][k]
      BY <3>1
    <3>3. QED
      BY <3>2
  <2>3. QED
    BY <1>2, <2>1, <2>2
<1>3. QED
  BY <1>1, <1>2

\* What a signature is made from, and what it then is.
Parts(bits, nonce, key, window, entropy, prev) ==
  /\ bits \in Message \X Keys /\ nonce \in Nat /\ key \in Keys
  /\ window \in Nat /\ entropy \in Outcome /\ prev \in ChainLink

Bound(sig, bits, nonce, window, link) ==
  /\ sig \in Signatures(Keys)
  /\ TagOk(sig) /\ StructurallySound(sig)
  /\ sig.bits = bits /\ sig.nonce = nonce /\ sig.window = window
  /\ sig.link = link

\* A signature made from well-typed parts is well-typed, and sound.
LEMMA SignatureSound ==
  ASSUME NEW bits, NEW nonce, NEW key, NEW window, NEW entropy, NEW prev,
         Parts(bits, nonce, key, window, entropy, prev)
  PROVE  Bound(Signature(bits, nonce, key, window, entropy, prev), bits, nonce, window,
               Link(prev, window, entropy))
<1> USE DEF Parts
<1> DEFINE tag == Tag(bits, nonce, key, window, entropy)
<1>1. Link(prev, window, entropy) \in ChainLink
  BY DEF Link, ChainLink
<1>2. tag \in [bits : Message \X Keys, nonce : Nat, key : Keys, window : Nat, entropy : Outcome]
  BY DEF Tag
<1>3. QED
  <2> HIDE DEF tag
  <2> DEFINE link == Link(prev, window, entropy)
  <2>1. link \in ChainLink
    BY <1>1
  <2>2. Signature(bits, nonce, key, window, entropy, prev)
          = [bits |-> bits, nonce |-> nonce, key |-> key, window |-> window,
             entropy |-> entropy, prev |-> prev, link |-> link, tag |-> tag]
    BY DEF Signature, tag
  <2> HIDE DEF link
  <2>3. Signature(bits, nonce, key, window, entropy, prev) \in Signatures(Keys)
    BY <1>2, <2>1, <2>2 DEF Signatures
  <2>4. QED
    BY <2>2, <2>3 DEF Bound, TagOk, StructurallySound, tag, link

\* The history of a notary: where its last link is and what it holds.
LEMMA HistoryOf ==
  ASSUME NEW t, ChainSound(t)
  PROVE  /\ t.history \in Seq(ChainLink) /\ t.window \in Nat
         /\ Len(t.history) = t.window + 1
         /\ Last(t.history) = t.history[t.window + 1]
         /\ \A i \in 1..(t.window + 1) : t.history[i] \in ChainLink
<1>1. t.history \in History /\ t.window \in Nat /\ Len(t.history) = t.window + 1
  BY DEF ChainSound, Notary
<1>2. t.history \in Seq(ChainLink)
  BY <1>1 DEF History
<1>3. QED
  BY <1>1, <1>2 DEF Last

\* Issuing a nonce touches nothing but the counter.
LEMMA IssueKeeps ==
  ASSUME NEW t, ChainSound(t)
  PROVE  LET u == IssueNonce(t)
         IN  /\ ChainSound(u)
             /\ u.nextNonce = t.nextNonce + 1 /\ u.window = t.window
             /\ u.history = t.history /\ u.key = t.key
             /\ u.consumed = t.consumed /\ u.used = t.used /\ u.frontier = t.frontier
<1>1. t \in Notary(Keys)
  BY DEF ChainSound
<1>2. IssueNonce(t) \in Notary(Keys)
  BY <1>1 DEF IssueNonce, Notary
<1>3. QED
  BY <1>1, <1>2 DEF ChainSound, IssueNonce, Notary

\* Signing extends the chain by the link of the next window.
LEMMA SignedKeeps ==
  ASSUME NEW t, ChainSound(t), NEW entropy \in Entropy
  PROVE  LET u == Signed(t, entropy)
         IN  /\ ChainSound(u)
             /\ u.nextNonce = t.nextNonce + 1 /\ u.window = t.window + 1
             /\ u.history = Append(t.history, Link(Last(t.history), t.window + 1, entropy))
             /\ u.consumed = t.consumed /\ u.used = t.used
             /\ u.key = t.key
<1> DEFINE link == Link(Last(t.history), t.window + 1, entropy)
           u == IssueNonce(t)
           v == [u EXCEPT !.window = t.window + 1]
           w == [v EXCEPT !.frontier = entropy]
           x == [w EXCEPT !.history = Append(t.history, link)]
<1>1. t \in Notary(Keys) /\ t.window \in Nat /\ t.nextNonce \in Nat
  BY DEF ChainSound, Notary
<1>2. /\ t.history \in Seq(ChainLink) /\ Len(t.history) = t.window + 1
      /\ Last(t.history) = t.history[t.window + 1] /\ Last(t.history) \in ChainLink
  BY <1>1, HistoryOf
<1>3. entropy \in Outcome
  BY DEF Outcome
<1>4. link \in ChainLink
  BY <1>1, <1>2, <1>3 DEF Link, ChainLink
<1>5. /\ u \in Notary(Keys) /\ u.window = t.window /\ u.history = t.history
      /\ u.consumed = t.consumed /\ u.used = t.used /\ u.nextNonce = t.nextNonce + 1
      /\ u.key = t.key
  BY IssueKeeps DEF ChainSound
<1>6. Signed(t, entropy) = x
  <2>1. DOMAIN u = {"key", "used", "nextNonce", "window", "history", "consumed", "frontier"}
    BY <1>5 DEF Notary
  <2>2. QED
    BY <1>1, <1>5, <2>1 DEF Signed
<1> HIDE DEF u, link
<1>7. Append(t.history, link) \in History
  <2>1. Append(t.history, link) \in Seq(ChainLink) /\ Len(Append(t.history, link)) = t.window + 2
    BY <1>1, <1>2, <1>4
  <2>2. Append(t.history, link) # <<>>
    <3>1. Len(Append(t.history, link)) # 0
      BY <1>1, <2>1
    <3>2. Len(<<>>) = 0
      OBVIOUS
    <3>3. QED
      BY <3>1, <3>2
  <2>3. QED
    BY <2>1, <2>2 DEF History
<1>8. /\ v \in Notary(Keys) /\ v.window = t.window + 1
      /\ v.consumed = t.consumed /\ v.used = t.used /\ v.nextNonce = t.nextNonce + 1
      /\ v.key = t.key
  BY <1>1, <1>5 DEF Notary
<1>9. /\ w \in Notary(Keys) /\ w.window = t.window + 1 /\ w.frontier = entropy
      /\ w.consumed = t.consumed /\ w.used = t.used /\ w.nextNonce = t.nextNonce + 1
      /\ w.key = t.key
  <2> HIDE DEF v
  <2>1. QED
    BY <1>3, <1>8 DEF Notary
<1>10. /\ x \in Notary(Keys) /\ x.window = t.window + 1 /\ x.frontier = entropy
       /\ x.history = Append(t.history, link)
       /\ x.consumed = t.consumed /\ x.used = t.used /\ x.nextNonce = t.nextNonce + 1
       /\ x.key = t.key
  <2> HIDE DEF w
  <2>1. QED
    BY <1>7, <1>9 DEF Notary
<1>11. ChainSound(x)
  <2> HIDE DEF x
  <2>1. Len(x.history) = x.window + 1
    BY <1>1, <1>2, <1>4, <1>10
  <2>2. x.history[x.window + 1] = Link(x.history[x.window], x.window, x.frontier)
    <3>1. /\ x.history[Len(t.history) + 1] = link
          /\ \A i \in 1..Len(t.history) : x.history[i] = t.history[i]
      BY <1>2, <1>4, <1>10, AppendFacts
    <3>2. x.history[t.window + 2] = link /\ x.history[t.window + 1] = t.history[t.window + 1]
      BY <1>1, <1>2, <3>1
    <3>3. x.window = t.window + 1 /\ x.window + 1 = t.window + 2
      BY <1>1, <1>10
    <3>4. QED
      BY <1>2, <1>10, <3>2, <3>3 DEF link
  <2>3. QED
    BY <1>10, <2>1, <2>2 DEF ChainSound
<1>12. QED
  BY <1>6, <1>10, <1>11 DEF link

\* An acceptance adds the window and the nonce to the registries.
LEMMA AcceptedKeeps ==
  ASSUME NEW t, ChainSound(t), NEW sig \in Signatures(Keys)
  PROVE  LET u == Accepted(t, sig)
         IN  /\ ChainSound(u)
             /\ u.consumed = t.consumed \cup {sig.window} /\ u.used = t.used \cup {sig.nonce}
             /\ u.nextNonce = t.nextNonce /\ u.window = t.window /\ u.history = t.history
             /\ u.key = t.key
<1> DEFINE v == [t EXCEPT !.consumed = t.consumed \cup {sig.window}]
           w == [v EXCEPT !.used = t.used \cup {sig.nonce}]
<1>1. t \in Notary(Keys) /\ sig.window \in Nat /\ sig.nonce \in Nat
  BY DEF ChainSound, Signatures
<1>2. v \in Notary(Keys) /\ v.consumed = t.consumed \cup {sig.window} /\ v.used = t.used
      /\ v.nextNonce = t.nextNonce /\ v.window = t.window /\ v.history = t.history
      /\ v.frontier = t.frontier /\ v.key = t.key
  BY <1>1 DEF Notary
<1>3. Accepted(t, sig) = w
  BY <1>1 DEF Accepted, Notary
<1>4. /\ w \in Notary(Keys) /\ w.consumed = v.consumed /\ w.used = t.used \cup {sig.nonce}
      /\ w.nextNonce = t.nextNonce /\ w.window = t.window /\ w.history = t.history
      /\ w.frontier = t.frontier /\ w.key = t.key
  <2> HIDE DEF v
  <2>1. t.used \cup {sig.nonce} \in SUBSET Nat
    BY <1>1 DEF Notary
  <2>2. QED
    BY <1>2, <2>1 DEF Notary
<1> HIDE DEF w
<1>5. QED
  BY <1>2, <1>3, <1>4 DEF ChainSound

-----------------------------------------------------------------------------
(* What a step may do to the notaries and to what was sent. *)

\* A signature stays sound while its notary moves forward and forgets no link.
LEMMA SentStaysSound ==
  ASSUME NEW s, SentSound(s),
         trent \in [Notaries -> Notary(Keys)], trent' \in [Notaries -> Notary(Keys)],
         \A n \in Notaries :
           /\ trent[n].nextNonce <= trent'[n].nextNonce
           /\ trent[n].window <= trent'[n].window
           /\ ChainSound(trent[n])
           /\ \A i \in 1..(trent[n].window + 1) : trent'[n].history[i] = trent[n].history[i]
  PROVE  SentSound(s)'
<1>1. s.by \in Notaries /\ s.sig.window \in Nat /\ s.sig.nonce \in Nat
  BY DEF SentSound, SentRecord, Signatures
<1>2. /\ trent[s.by].nextNonce \in Nat /\ trent'[s.by].nextNonce \in Nat
      /\ trent[s.by].window \in Nat /\ trent'[s.by].window \in Nat
  BY <1>1 DEF Notary
<1>3. s.sig.nonce < trent'[s.by].nextNonce /\ s.sig.window <= trent'[s.by].window
  BY <1>1, <1>2 DEF SentSound
<1>4. s.sig.window > 0 => s.sig.link = trent'[s.by].history[s.sig.window + 1]
  <2>1. s.sig.window + 1 \in 1..(trent[s.by].window + 1)
    BY <1>1, <1>2 DEF SentSound
  <2>2. QED
    BY <1>1, <2>1 DEF SentSound
<1>5. QED
  BY <1>3, <1>4 DEF SentSound

\* A step that sends a signature of notary n under its next nonce and leaves
\* every registry and acceptance as it is keeps the invariant.
LEMMA SendingKeepsInv ==
  ASSUME WireInv, NEW n \in Notaries, NEW u, ChainSound(u),
         u.nextNonce = trent[n].nextNonce + 1,
         trent[n].window <= u.window,
         \A i \in 1..(trent[n].window + 1) : u.history[i] = trent[n].history[i],
         u.consumed = trent[n].consumed, u.used = trent[n].used,
         trent' = [trent EXCEPT ![n] = u],
         NEW s \in SentRecord, s.by = n, TagOk(s.sig), StructurallySound(s.sig),
         s.sig.bits = <<s.msg, SeedKey>>, s.sig.nonce = trent[n].nextNonce,
         s.sig.window <= u.window,
         s.sig.window > 0 => s.sig.link = u.history[s.sig.window + 1],
         wire' = wire \cup {s}, UNCHANGED accepts
  PROVE  WireInv'
<1>1. u \in Notary(Keys) /\ trent' \in [Notaries -> Notary(Keys)]
  BY DEF WireInv, ChainSound
<1>2. trent'[n] = u /\ \A m \in Notaries \ {n} : trent'[m] = trent[m]
  BY DEF WireInv
<1>3. \A m \in Notaries : /\ trent[m].nextNonce \in Nat /\ trent[m].window \in Nat
                          /\ trent'[m].nextNonce \in Nat /\ trent'[m].window \in Nat
  BY <1>1 DEF WireInv, Notary
<1>4. \A m \in Notaries :
        /\ ChainSound(trent'[m])
        /\ trent[m].nextNonce <= trent'[m].nextNonce
        /\ trent[m].window <= trent'[m].window
        /\ \A i \in 1..(trent[m].window + 1) : trent'[m].history[i] = trent[m].history[i]
        /\ trent'[m].consumed = trent[m].consumed /\ trent'[m].used = trent[m].used
  <2> TAKE m \in Notaries
  <2>1. CASE m = n
    BY <1>2, <1>3, <2>1
  <2>2. CASE m # n
    BY <1>2, <1>3, <2>2 DEF WireInv
  <2>3. QED
    BY <2>1, <2>2
<1>5. ASSUME NEW r \in wire' PROVE SentSound(r)'
  <2>1. CASE r \in wire
    BY <1>1, <1>4, <2>1, SentStaysSound DEF WireInv
  <2>2. CASE r = s
    <3>1. s.sig.nonce < trent'[n].nextNonce
      BY <1>2, <1>3
    <3>2. QED
      BY <1>2, <2>2, <3>1 DEF SentSound
  <2>3. QED
    BY <2>1, <2>2
<1>6. NonceBindsWindow'
  <2> SUFFICES ASSUME NEW q \in wire', NEW r \in wire', q.by = r.by, q.sig.nonce = r.sig.nonce
               PROVE  q.sig.window = r.sig.window
    BY DEF NonceBindsWindow
  <2>1. \A p \in wire : p.by = n => p.sig.nonce # trent[n].nextNonce
    <3> SUFFICES ASSUME NEW p \in wire, p.by = n PROVE p.sig.nonce # trent[n].nextNonce
      OBVIOUS
    <3>1. p.sig.nonce < trent[n].nextNonce /\ p.sig.nonce \in Nat
      BY DEF WireInv, SentSound, SentRecord, Signatures
    <3>2. QED
      BY <1>3, <3>1
  <2>2. QED
    BY <2>1 DEF WireInv, NonceBindsWindow
<1>7. ASSUME NEW m \in Notaries PROVE RegistriesMatch(m)' /\ AcceptedWasSent(m)'
  <2>1. RegistriesMatch(m)'
    <3>1. RegistriesMatch(m) /\ accepts'[m] = accepts[m]
      BY DEF WireInv
    <3>2. QED
      BY <1>4, <3>1 DEF RegistriesMatch
  <2>2. AcceptedWasSent(m)'
    <3>1. AcceptedWasSent(m) /\ accepts'[m] = accepts[m]
      BY DEF WireInv
    <3>2. QED
      BY <3>1 DEF AcceptedWasSent
  <2>3. QED
    BY <2>1, <2>2
<1>8. AcceptedOnce'
  <2>1. AcceptedOnce /\ accepts' = accepts
    BY DEF WireInv
  <2>2. QED
    BY <2>1 DEF AcceptedOnce
<1>9. QED
  BY <1>1, <1>4, <1>5, <1>6, <1>7, <1>8 DEF WireInv

-----------------------------------------------------------------------------
(* The steps. *)

LEMMA InitKeepsInv == ASSUME Init PROVE WireInv
<1> DEFINE t == NewTrent(SeedKey)
<1>1. t \in Notary(Keys)
  <2>1. <<Genesis>> \in History
    <3>1. Genesis \in ChainLink
      BY DEF Genesis, ChainLink
    <3>2. <<Genesis>> \in Seq(ChainLink) /\ <<Genesis>> # <<>>
      BY <3>1
    <3>3. QED
      BY <3>2 DEF History
  <2>2. TableEntropy \in Outcome
    BY DEF Outcome
  <2>3. QED
    BY <2>1, <2>2 DEF NewTrent, Notary, Keys
<1>2. Len(t.history) = 1 /\ t.window = 0 /\ t.consumed = {} /\ t.used = {}
  BY DEF NewTrent
<1>3. ChainSound(t)
  BY <1>1, <1>2 DEF ChainSound
<1>4. /\ trent = [n \in Notaries |-> t] /\ wire = {} /\ accepts = [n \in Notaries |-> <<>>]
  BY DEF Init
<1>5. accepts \in [Notaries -> Seq(Nat \X Nat)] /\ \A n \in Notaries : Len(accepts[n]) = 0
  BY <1>4
<1> HIDE DEF t
<1>6. trent \in [Notaries -> Notary(Keys)] /\ \A n \in Notaries : trent[n] = t
  BY <1>1, <1>4
<1>7. \A n \in Notaries : RegistriesMatch(n)
  BY <1>2, <1>5, <1>6 DEF RegistriesMatch
<1>8. \A n \in Notaries : AcceptedWasSent(n)
  BY <1>5 DEF AcceptedWasSent
<1>9. AcceptedOnce
  BY <1>5 DEF AcceptedOnce
<1>10. QED
  BY <1>3, <1>4, <1>5, <1>6, <1>7, <1>8, <1>9 DEF WireInv, NonceBindsWindow

LEMMA SignKeepsInv ==
  ASSUME WireInv, NEW n \in Notaries, NEW msg \in Message, NEW entropy \in Entropy,
         Sign(n, msg, entropy)
  PROVE  WireInv'
<1> DEFINE t == trent[n]
           u == Signed(t, entropy)
           sig == NextSignature(t, msg, entropy)
           s == [by |-> n, msg |-> msg, sig |-> sig]
<1>1. ChainSound(t) /\ t \in Notary(Keys) /\ t.key = SeedKey /\ t.nextNonce \in Nat
  BY DEF WireInv, ChainSound, Notary, Keys
<1>2. /\ t.history \in Seq(ChainLink) /\ t.window \in Nat
      /\ Len(t.history) = t.window + 1
      /\ Last(t.history) \in ChainLink
  BY <1>1, HistoryOf
<1>3. entropy \in Outcome
  BY DEF Outcome
<1>4. /\ sig \in Signatures(Keys) /\ TagOk(sig) /\ StructurallySound(sig)
      /\ sig.bits = <<msg, SeedKey>> /\ sig.nonce = t.nextNonce /\ sig.window = t.window + 1
      /\ sig.link = Link(Last(t.history), t.window + 1, entropy)
  <2>1. Parts(<<msg, SeedKey>>, t.nextNonce, SeedKey, t.window + 1, entropy, Last(t.history))
    BY <1>1, <1>2, <1>3 DEF Parts, Keys
  <2>2. sig = Signature(<<msg, SeedKey>>, t.nextNonce, SeedKey, t.window + 1, entropy, Last(t.history))
    BY <1>1 DEF NextSignature
  <2> HIDE DEF sig, t
  <2>3. Bound(sig, <<msg, SeedKey>>, t.nextNonce, t.window + 1,
              Link(Last(t.history), t.window + 1, entropy))
    BY <2>1, <2>2, SignatureSound, Zenon
  <2>4. QED
    BY <2>3 DEF Bound
<1>5. /\ ChainSound(u)
      /\ u.nextNonce = t.nextNonce + 1 /\ u.window = t.window + 1
      /\ u.history = Append(t.history, Link(Last(t.history), t.window + 1, entropy))
      /\ u.consumed = t.consumed /\ u.used = t.used
  BY <1>1, SignedKeeps
<1>6. trent' = [trent EXCEPT ![n] = u] /\ wire' = wire \cup {s} /\ UNCHANGED accepts
  BY DEF Sign
<1>7. s \in SentRecord /\ s.by = n /\ s.msg = msg /\ s.sig = sig
  <2> HIDE DEF sig
  <2>1. QED
    BY <1>4 DEF SentRecord
<1> HIDE DEF t, u, sig, s
<1>8. /\ \A i \in 1..(t.window + 1) : u.history[i] = t.history[i]
      /\ u.history[t.window + 2] = sig.link
  <2>1. Link(Last(t.history), t.window + 1, entropy) \in ChainLink
    BY <1>2, <1>3 DEF Link, ChainLink
  <2>2. /\ u.history[Len(t.history) + 1] = Link(Last(t.history), t.window + 1, entropy)
        /\ \A i \in 1..Len(t.history) : u.history[i] = t.history[i]
    BY <1>2, <1>5, <2>1, AppendFacts
  <2>3. QED
    BY <1>2, <1>4, <2>2
<1>9. t.window <= u.window /\ sig.window <= u.window
      /\ (sig.window > 0 => sig.link = u.history[sig.window + 1])
  BY <1>2, <1>4, <1>5, <1>8
<1>10. QED
  BY <1>4, <1>5, <1>6, <1>7, <1>8, <1>9, SendingKeepsInv DEF t

LEMMA RebindKeepsInv ==
  ASSUME WireInv, NEW n \in Notaries, NEW sent \in wire, Rebind(n, sent)
  PROVE  WireInv'
<1> DEFINE t == trent[n]
           u == IssueNonce(t)
           sig == Rebinding(t, sent.sig.bits)
           s == [sent EXCEPT !.by = n, !.sig = sig]
           prev == IF Len(t.history) >= 2 THEN t.history[Len(t.history) - 1] ELSE Genesis
<1>1. ChainSound(t) /\ t \in Notary(Keys) /\ t.key = SeedKey /\ t.nextNonce \in Nat
      /\ t.frontier \in Outcome
  BY DEF WireInv, ChainSound, Notary, Keys
<1>2. /\ t.history \in Seq(ChainLink) /\ t.window \in Nat
      /\ Len(t.history) = t.window + 1
      /\ \A i \in 1..(t.window + 1) : t.history[i] \in ChainLink
  BY <1>1, HistoryOf
<1>3. /\ prev \in ChainLink
      /\ t.window > 0 => prev = t.history[t.window]
  <2>1. Genesis \in ChainLink
    BY DEF Genesis, ChainLink
  <2>2. CASE t.window > 0
    BY <1>2, <2>2
  <2>3. CASE t.window = 0
    BY <1>2, <2>1, <2>3
  <2>4. QED
    BY <1>2, <2>2, <2>3
<1>4. sent \in SentRecord /\ sent.sig.bits = <<sent.msg, SeedKey>>
  BY DEF WireInv, SentSound
<1>5. sent.sig.bits \in Message \X Keys
  BY <1>4 DEF SentRecord, Signatures
<1>6. /\ sig \in Signatures(Keys) /\ TagOk(sig) /\ StructurallySound(sig)
      /\ sig.bits = sent.sig.bits /\ sig.nonce = t.nextNonce /\ sig.window = t.window
      /\ sig.link = Link(prev, t.window, t.frontier)
  <2>1. sig = Signature(sent.sig.bits, t.nextNonce, t.key, t.window, t.frontier, prev)
    BY DEF Rebinding
  <2> HIDE DEF sig, prev, t
  <2>2. Parts(sent.sig.bits, t.nextNonce, t.key, t.window, t.frontier, prev)
    BY <1>1, <1>2, <1>3, <1>5 DEF Parts, Keys
  <2>3. Bound(sig, sent.sig.bits, t.nextNonce, t.window, Link(prev, t.window, t.frontier))
    BY <2>1, <2>2, SignatureSound, Zenon
  <2>4. QED
    BY <2>3 DEF Bound
<1>7. /\ ChainSound(u)
      /\ u.nextNonce = t.nextNonce + 1 /\ u.window = t.window /\ u.history = t.history
      /\ u.consumed = t.consumed /\ u.used = t.used
  BY <1>1, IssueKeeps
<1>8. s \in SentRecord /\ s.by = n /\ s.msg = sent.msg /\ s.sig = sig
  <2> HIDE DEF sig
  <2>1. QED
    BY <1>4, <1>6 DEF SentRecord
<1>9. trent' = [trent EXCEPT ![n] = u] /\ wire' = wire \cup {s} /\ UNCHANGED accepts
  BY DEF Rebind
<1> HIDE DEF u, sig, s, prev
<1>10. sig.window > 0 => sig.link = u.history[sig.window + 1]
  BY <1>1, <1>2, <1>3, <1>6, <1>7 DEF ChainSound
<1>11. t.window <= u.window /\ sig.window <= u.window
  BY <1>2, <1>6, <1>7
<1>12. \A i \in 1..(t.window + 1) : u.history[i] = t.history[i]
  BY <1>7
<1>13. QED
  BY <1>4, <1>6, <1>7, <1>8, <1>9, <1>10, <1>11, <1>12, SendingKeepsInv

\* An acceptance takes a window and a nonce the registries did not hold.
LEMMA AcceptanceKeepsInv ==
  ASSUME WireInv, NEW n \in Notaries, NEW sent \in wire, NEW claimed \in Message,
         Verify(n, sent, claimed), Accepts(trent[n], claimed, sent.sig)
  PROVE  WireInv'
<1> DEFINE t == trent[n]
           u == Accepted(t, sent.sig)
           pair == <<sent.sig.window, sent.sig.nonce>>
<1>1. ChainSound(t) /\ SentSound(sent) /\ sent.sig \in Signatures(Keys)
  BY DEF WireInv, SentSound, SentRecord
<1>2. /\ ChainSound(u) /\ u \in Notary(Keys)
      /\ u.consumed = t.consumed \cup {sent.sig.window} /\ u.used = t.used \cup {sent.sig.nonce}
      /\ u.nextNonce = t.nextNonce /\ u.window = t.window /\ u.history = t.history
  BY <1>1, AcceptedKeeps DEF ChainSound
<1>3. trent' = [trent EXCEPT ![n] = u] /\ wire' = wire
      /\ accepts' = [accepts EXCEPT ![n] = Append(accepts[n], pair)]
  BY DEF Verify, Verified
<1>4. sent.sig.window \notin t.consumed /\ sent.sig.nonce \notin t.used
  BY DEF Accepts, TrapCheck
<1>5. pair \in Nat \X Nat /\ pair[1] = sent.sig.window /\ pair[2] = sent.sig.nonce
  BY <1>1 DEF Signatures
<1> HIDE DEF u, pair
<1>6. /\ trent' \in [Notaries -> Notary(Keys)] /\ trent'[n] = u
      /\ \A m \in Notaries \ {n} : trent'[m] = trent[m]
  BY <1>2, <1>3 DEF WireInv
<1>7. accepts[n] \in Seq(Nat \X Nat)
  BY DEF WireInv
<1> DEFINE h == Append(accepts[n], pair)
<1>8. /\ h \in Seq(Nat \X Nat) /\ Len(h) = Len(accepts[n]) + 1
      /\ h[Len(accepts[n]) + 1] = pair
      /\ \A i \in 1..Len(accepts[n]) : h[i] = accepts[n][i]
      /\ Len(accepts[n]) \in Nat
  BY <1>5, <1>7, AppendFacts
<1>9. /\ accepts' \in [Notaries -> Seq(Nat \X Nat)] /\ accepts'[n] = h
      /\ \A m \in Notaries \ {n} : accepts'[m] = accepts[m]
  <2>1. accepts \in [Notaries -> Seq(Nat \X Nat)]
    BY DEF WireInv
  <2>2. QED
    BY <1>3, <1>8, <2>1
<1> HIDE DEF h
<1>10. \A i \in 1..Len(h) : i \in 1..Len(accepts[n]) \/ i = Len(accepts[n]) + 1
  BY <1>8
<1>11. RegistriesMatch(n)
  BY DEF WireInv
<1>12. ASSUME NEW m \in Notaries PROVE ChainSound(trent[m])' /\ RegistriesMatch(m)'
  <2>1. CASE m # n
    <3>1. ChainSound(trent[m]) /\ RegistriesMatch(m)
      BY DEF WireInv
    <3>2. trent'[m] = trent[m] /\ accepts'[m] = accepts[m]
      BY <1>6, <1>9, <2>1
    <3>3. QED
      BY <3>1, <3>2 DEF RegistriesMatch
  <2>2. CASE m = n
    <3>1. /\ { h[i][1] : i \in 1..Len(h) }
               = { accepts[n][i][1] : i \in 1..Len(accepts[n]) } \cup {pair[1]}
          /\ { h[i][2] : i \in 1..Len(h) }
               = { accepts[n][i][2] : i \in 1..Len(accepts[n]) } \cup {pair[2]}
      <4>1. ASSUME NEW k
            PROVE  { h[i][k] : i \in 1..Len(h) }
                     = { accepts[n][i][k] : i \in 1..Len(accepts[n]) } \cup {pair[k]}
        <5>1. PICK q : q = accepts[n]
          OBVIOUS
        <5>2. /\ Len(q) \in Nat /\ Len(h) = Len(q) + 1 /\ h[Len(q) + 1] = pair
              /\ \A i \in 1..Len(q) : h[i] = q[i]
          BY <1>8, <5>1
        <5>3. { h[i][k] : i \in 1..Len(h) } = { q[i][k] : i \in 1..Len(q) } \cup {pair[k]}
          BY <5>2, ComponentsGrow
        <5>4. QED
          BY <5>1, <5>3
      <4>2. QED
        BY <4>1
    <3>2. u.consumed = { h[i][1] : i \in 1..Len(h) } /\ u.used = { h[i][2] : i \in 1..Len(h) }
      BY <1>2, <1>5, <1>11, <3>1 DEF RegistriesMatch
    <3>3. QED
      BY <1>2, <1>6, <1>9, <2>2, <3>2 DEF RegistriesMatch
  <2>3. QED
    BY <2>1, <2>2
<1>13. ASSUME NEW m \in Notaries PROVE AcceptedWasSent(m)'
  <2>1. AcceptedWasSent(m)
    BY DEF WireInv
  <2>2. CASE m # n
    BY <1>3, <1>9, <2>1, <2>2 DEF AcceptedWasSent
  <2>3. CASE m = n
    <3>1. ASSUME NEW i \in 1..Len(h) PROVE \E s \in wire : h[i] = <<s.sig.window, s.sig.nonce>>
      <4>1. CASE i \in 1..Len(accepts[n])
        BY <1>8, <2>1, <2>3, <4>1 DEF AcceptedWasSent
      <4>2. CASE i = Len(accepts[n]) + 1
        BY <1>8, <4>2 DEF pair
      <4>3. QED
        BY <1>10, <4>1, <4>2
    <3>2. accepts'[m] = h /\ wire' = wire
      BY <1>3, <1>9, <2>3
    <3> HIDE DEF pair
    <3>3. QED
      BY <3>1, <3>2 DEF AcceptedWasSent
  <2>4. QED
    BY <2>2, <2>3
<1>14. AcceptedOnce'
  <2>1. \A i \in 1..Len(accepts[n]) : accepts[n][i][1] # pair[1] /\ accepts[n][i][2] # pair[2]
    BY <1>4, <1>5, <1>11 DEF RegistriesMatch
  <2>2. ASSUME NEW i \in 1..Len(h), NEW j \in 1..Len(h), i # j
        PROVE  h[i][1] # h[j][1] /\ h[i][2] # h[j][2]
    <3>1. CASE i \in 1..Len(accepts[n]) /\ j \in 1..Len(accepts[n])
      <4>1. AcceptedOnce
        BY DEF WireInv
      <4>2. accepts[n][i][1] # accepts[n][j][1] /\ accepts[n][i][2] # accepts[n][j][2]
        BY <2>2, <3>1, <4>1 DEF AcceptedOnce
      <4>3. QED
        BY <1>8, <3>1, <4>2
    <3>2. CASE i = Len(accepts[n]) + 1 /\ j \in 1..Len(accepts[n])
      BY <1>8, <2>1, <3>2
    <3>3. CASE i \in 1..Len(accepts[n]) /\ j = Len(accepts[n]) + 1
      BY <1>8, <2>1, <3>3
    <3>4. QED
      BY <1>10, <2>2, <3>1, <3>2, <3>3
  <2>3. ASSUME NEW m \in Notaries, m # n,
               NEW i \in 1..Len(accepts'[m]), NEW j \in 1..Len(accepts'[m]), i # j
        PROVE  accepts'[m][i][1] # accepts'[m][j][1] /\ accepts'[m][i][2] # accepts'[m][j][2]
    <3>1. accepts'[m] = accepts[m] /\ AcceptedOnce
      BY <1>9, <2>3 DEF WireInv
    <3>2. i \in 1..Len(accepts[m]) /\ j \in 1..Len(accepts[m])
      BY <3>1
    <3>3. accepts[m][i][1] # accepts[m][j][1] /\ accepts[m][i][2] # accepts[m][j][2]
      BY <2>3, <3>1, <3>2 DEF AcceptedOnce
    <3>4. QED
      BY <3>1, <3>3
  <2>4. ASSUME NEW m \in Notaries,
               NEW i \in 1..Len(accepts'[m]), NEW j \in 1..Len(accepts'[m]), i # j
        PROVE  accepts'[m][i][1] # accepts'[m][j][1] /\ accepts'[m][i][2] # accepts'[m][j][2]
    <3>1. CASE m # n
      BY <2>3, <2>4, <3>1
    <3>2. CASE m = n
      BY <1>9, <2>2, <2>4, <3>2
    <3>3. QED
      BY <3>1, <3>2
  <2>5. QED
    BY <2>4 DEF AcceptedOnce
<1>15. ASSUME NEW s \in wire' PROVE SentSound(s)'
  <2>1. ASSUME NEW m \in Notaries
        PROVE  /\ trent[m].nextNonce <= trent'[m].nextNonce
               /\ trent[m].window <= trent'[m].window
               /\ ChainSound(trent[m])
               /\ \A i \in 1..(trent[m].window + 1) :
                    trent'[m].history[i] = trent[m].history[i]
    <3>1. trent[m].nextNonce \in Nat /\ trent[m].window \in Nat /\ ChainSound(trent[m])
      BY DEF WireInv, Notary
    <3>2. /\ trent'[m].nextNonce = trent[m].nextNonce /\ trent'[m].window = trent[m].window
          /\ trent'[m].history = trent[m].history
      BY <1>2, <1>6
    <3>3. QED
      BY <3>1, <3>2
  <2>2. trent \in [Notaries -> Notary(Keys)] /\ SentSound(s)
    BY <1>3 DEF WireInv
  <2>3. QED
    BY <1>6, <2>1, <2>2, SentStaysSound
<1>16. NonceBindsWindow'
  BY <1>3 DEF WireInv, NonceBindsWindow
<1>17. QED
  BY <1>6, <1>9, <1>12, <1>13, <1>14, <1>15, <1>16 DEF WireInv

LEMMA WireUnchangedKeepsInv == ASSUME WireInv, UNCHANGED vars PROVE WireInv'
<1>1. trent' = trent /\ wire' = wire /\ accepts' = accepts
  BY DEF vars
<1>2. \A n \in Notaries : RegistriesMatch(n)' /\ AcceptedWasSent(n)'
  <2>1. ASSUME NEW n \in Notaries PROVE RegistriesMatch(n)'
    BY <1>1 DEF WireInv, RegistriesMatch
  <2>2. ASSUME NEW n \in Notaries PROVE AcceptedWasSent(n)'
    BY <1>1 DEF WireInv, AcceptedWasSent
  <2>3. QED
    BY <2>1, <2>2
<1>3. \A s \in wire : SentSound(s)'
  BY <1>1 DEF WireInv, SentSound
<1>4. NonceBindsWindow' /\ AcceptedOnce'
  BY <1>1 DEF WireInv, NonceBindsWindow, AcceptedOnce
<1>5. QED
  BY <1>1, <1>2, <1>3, <1>4 DEF WireInv

\* Every step keeps the invariant.
LEMMA WireInvIsInductive == WireInv /\ [Next]_vars => WireInv'
<1> SUFFICES ASSUME WireInv, [Next]_vars PROVE WireInv'
  OBVIOUS
<1>1. ASSUME NEW n \in Notaries, NEW sent \in wire, NEW claimed \in Message,
             Verify(n, sent, claimed)
      PROVE  WireInv'
  <2>1. CASE Accepts(trent[n], claimed, sent.sig)
    BY <1>1, <2>1, AcceptanceKeepsInv
  <2>2. CASE ~Accepts(trent[n], claimed, sent.sig)
    <3>1. trent' = [trent EXCEPT ![n] = trent[n]] /\ accepts' = accepts /\ wire' = wire
      BY <1>1, <2>2 DEF Verify, Verified
    <3>2. trent' = trent
      BY <3>1 DEF WireInv
    <3>3. QED
      BY <3>1, <3>2, WireUnchangedKeepsInv DEF vars
  <2>3. QED
    BY <2>1, <2>2
<1>2. QED
  BY <1>1, SignKeepsInv, RebindKeepsInv, WireUnchangedKeepsInv DEF Next

\* The registries of a notary, its clock and what was sent agree, after any deliveries
\* (sign, verify and mint_temporal_for).
THEOREM WireInvAlways == Spec => []WireInv
BY InitKeepsInv, WireInvIsInductive, PTL DEF Spec

-----------------------------------------------------------------------------
(* What the protocol promises. *)

\* On one laptop no window and no nonce is accepted twice, however many laptops
\* share the seed and whatever is delivered (trap_check and verify: both
\* registries are consulted before and filled by the same acceptance).
THEOREM NothingAcceptedTwice == Spec => []AcceptedOnce
<1>1. WireInv => AcceptedOnce
  BY DEF WireInv
<1>2. QED
  BY <1>1, WireInvAlways, PTL

\* One laptop for the seed, as the crate assumes when it keeps the nonce
\* counter in the notary: a second would issue the same nonces.
OneLaptop == \A m, n \in Notaries : m = n

\* With one laptop, a delayed genuine signature is accepted as long as its
\* window is neither filled nor beyond the horizon (verify): its link is in the
\* history, and no other acceptance can have taken its nonce.
THEOREM DelayedAlwaysAccepted ==
  ASSUME OneLaptop PROVE Spec => []DelayedStillAccepted
<1>1. WireInv => DelayedStillAccepted
  <2> SUFFICES ASSUME WireInv, NEW s \in wire,
                      s.sig.window \notin { accepts[s.by][i][1] : i \in 1..Len(accepts[s.by]) },
                      s.sig.window \in (trent[s.by].window - Horizon + 1)..trent[s.by].window,
                      s.sig.window > 0
               PROVE  Accepts(trent[s.by], s.msg, s.sig)
    BY DEF DelayedStillAccepted
  <2> DEFINE t == trent[s.by]
  <2>1. SentSound(s) /\ s.by \in Notaries /\ s.sig.window \in Nat /\ s.sig.key = SeedKey
    BY DEF WireInv, SentSound, SentRecord, Signatures, Keys
  <2>2. ChainSound(t) /\ t.window \in Nat /\ t.key = SeedKey /\ Horizon \in Nat
    BY <2>1, NotaryAssumption DEF WireInv, ChainSound, Notary, Keys
  <2>3. LocallyMinted(t, s.sig)
    <3>1. s.sig.window + 1 \in 1..Len(t.history)
      <4>1. Len(t.history) = t.window + 1
        BY <2>2 DEF ChainSound
      <4>2. s.sig.window <= t.window
        BY <2>1 DEF SentSound
      <4> HIDE DEF t
      <4>3. QED
        BY <2>1, <2>2, <4>1, <4>2
    <3>2. s.sig.link = t.history[s.sig.window + 1]
      BY <2>1 DEF SentSound
    <3>3. QED
      BY <3>1, <3>2 DEF LocallyMinted
  <2>4. s.sig.window \notin t.consumed
    BY <2>1 DEF WireInv, RegistriesMatch
  <2>5. s.sig.nonce \notin t.used
    <3> SUFFICES ASSUME s.sig.nonce \in t.used PROVE FALSE
      OBVIOUS
    <3>0. RegistriesMatch(s.by)
      BY <2>1 DEF WireInv
    <3>1. PICK i \in 1..Len(accepts[s.by]) : s.sig.nonce = accepts[s.by][i][2]
      BY <3>0 DEF RegistriesMatch
    <3>2. PICK r \in wire : accepts[s.by][i] = <<r.sig.window, r.sig.nonce>>
      BY <2>1 DEF WireInv, AcceptedWasSent
    <3>3. r.by = s.by
      <4>1. r.by \in Notaries
        BY DEF WireInv, SentSound, SentRecord
      <4>2. QED
        BY <2>1, <4>1 DEF OneLaptop
    <3>4. r.sig.window = s.sig.window
      <4>1. NonceBindsWindow
        BY DEF WireInv
      <4>2. s.sig.nonce = r.sig.nonce
        BY <3>1, <3>2
      <4>3. QED
        BY <3>3, <4>1, <4>2 DEF NonceBindsWindow
    <3>5. QED
      BY <3>2, <3>4
  <2>6. t.window - s.sig.window < Horizon
    BY <2>1, <2>2
  <2>7. TrapCheck(t, s.sig)
    BY <2>1, <2>3, <2>4, <2>6 DEF TrapCheck, SentSound
  <2>8. QED
    <3>1. s.sig.bits = <<s.msg, SeedKey>>
      BY <2>1 DEF SentSound
    <3>2. QED
      BY <2>1, <2>2, <2>5, <2>7, <3>1 DEF Accepts, StatisticsMatch
<1>2. QED
  BY <1>1, WireInvAlways, PTL

\* With one laptop, the next session is accepted by its own verification: its
\* window and its nonce lie beyond everything the registries can hold.  (Two
\* laptops with one seed refute this, which a run shows.)
THEOREM NextSessionOfOneLaptop ==
  ASSUME OneLaptop PROVE Spec => []NextSessionAccepted
<1>1. WireInv => NextSessionAccepted
  <2> SUFFICES ASSUME WireInv, NEW n \in Notaries, NEW msg \in Message, NEW entropy \in Entropy
               PROVE  Accepts(Signed(trent[n], entropy), msg, NextSignature(trent[n], msg, entropy))
    BY DEF NextSessionAccepted
  <2> DEFINE t == trent[n]
             u == Signed(t, entropy)
             sig == NextSignature(t, msg, entropy)
             link == Link(Last(t.history), t.window + 1, entropy)
  <2>1. ChainSound(t) /\ t.key = SeedKey /\ t.nextNonce \in Nat
    BY DEF WireInv, ChainSound, Notary, Keys
  <2>2. /\ t.history \in Seq(ChainLink) /\ t.window \in Nat
        /\ Len(t.history) = t.window + 1
        /\ Last(t.history) \in ChainLink
    BY <2>1, HistoryOf
  <2>3. link \in ChainLink
    BY <2>2 DEF Link, ChainLink, Outcome
  <2>4. /\ u.window = t.window + 1 /\ u.key = SeedKey
        /\ u.history = Append(t.history, link)
        /\ u.consumed = t.consumed /\ u.used = t.used
    BY <2>1, SignedKeeps
  <2>5. /\ TagOk(sig) /\ StructurallySound(sig)
        /\ sig.bits = <<msg, SeedKey>> /\ sig.nonce = t.nextNonce /\ sig.window = t.window + 1
        /\ sig.link = link /\ sig.key = SeedKey
    <3>1. Parts(<<msg, SeedKey>>, t.nextNonce, t.key, t.window + 1, entropy, Last(t.history))
      BY <2>1, <2>2 DEF Parts, Keys, Outcome
    <3>2. sig = Signature(<<msg, SeedKey>>, t.nextNonce, t.key, t.window + 1, entropy,
                          Last(t.history))
      BY <2>1 DEF NextSignature
    <3>3. sig.key = SeedKey
      BY <2>1, <3>2 DEF Signature
    <3> HIDE DEF sig, t, u
    <3>4. Bound(sig, <<msg, SeedKey>>, t.nextNonce, t.window + 1, link)
      BY <3>1, <3>2, SignatureSound, Zenon
    <3>5. QED
      BY <3>3, <3>4 DEF Bound
  <2>6. \A i \in 1..Len(accepts[n]) :
          accepts[n][i][1] # t.window + 1 /\ accepts[n][i][2] # t.nextNonce
    <3> SUFFICES ASSUME NEW i \in 1..Len(accepts[n])
                 PROVE  accepts[n][i][1] # t.window + 1 /\ accepts[n][i][2] # t.nextNonce
      OBVIOUS
    <3>1. PICK r \in wire : accepts[n][i] = <<r.sig.window, r.sig.nonce>>
      BY DEF WireInv, AcceptedWasSent
    <3>2. SentSound(r) /\ r.by \in Notaries /\ r.sig.window \in Nat /\ r.sig.nonce \in Nat
      BY DEF WireInv, SentSound, SentRecord, Signatures
    <3>3. r.by = n
      BY <3>2 DEF OneLaptop
    <3>4. r.sig.window <= t.window /\ r.sig.nonce < t.nextNonce
      BY <3>2, <3>3 DEF SentSound
    <3>5. QED
      BY <2>1, <2>2, <3>1, <3>2, <3>4
  <2>7. sig.window \notin u.consumed /\ sig.nonce \notin u.used
    <3>1. RegistriesMatch(n)
      BY DEF WireInv
    <3>2. QED
      BY <2>4, <2>5, <2>6, <3>1 DEF RegistriesMatch
  <2> HIDE DEF u, sig, link, t
  <2>8. LocallyMinted(u, sig)
    <3>1. /\ Len(u.history) = Len(t.history) + 1 /\ Len(t.history) \in Nat
          /\ u.history[Len(t.history) + 1] = link
      BY <2>2, <2>3, <2>4, AppendFacts
    <3>2. Len(t.history) + 1 \in 1..Len(u.history)
      BY <3>1
    <3>3. QED
      BY <2>5, <3>1, <3>2 DEF LocallyMinted
  <2>9. u.window - sig.window < Horizon
    BY <2>2, <2>4, <2>5, NotaryAssumption
  <2>10. Accepts(u, msg, sig)
    BY <2>4, <2>5, <2>7, <2>8, <2>9 DEF Accepts, TrapCheck, StatisticsMatch
  <2>11. QED
    BY <2>10 DEF u, sig, t
<1>2. QED
  BY <1>1, WireInvAlways, PTL

-----------------------------------------------------------------------------
(***************************************************************************)
(* The delivery of ring documents.                                         *)
(***************************************************************************)
Item == [id : Nat, doc : Nat, ring : Demand, given : Nat]

DeliverJob ==
  [op : {"deliver"}, doc : Nat, k : Nat, members : Seq(Accounts), left : Seq(Accounts),
   reached : BOOLEAN]
NoteJob == [op : {"note"}, doc : Nat, reached : BOOLEAN]
AttestJob ==
  [op : {"verify", "record"}, by : Accounts, id : Nat, doc : Nat, members : Seq(Accounts),
   left : Seq(Accounts)]
GateJob == [op : {"gate"}, by : Accounts, id : Nat, doc : Nat]
Jobs == {Idle} \cup DeliverJob \cup NoteJob \cup AttestJob \cup GateJob

RingTypeOK ==
  /\ copies \in [Accounts -> SUBSET Item]
  /\ counter \in [Accounts -> Nat]
  /\ rings \in Nat
  /\ job \in [RingClerks -> Jobs]
  /\ IsFiniteSet(verdicts)

\* Somebody accepted a ring document as item n: `by` did.
AcceptedAs(by, n) == \E v \in verdicts : v.by = by /\ v.id = n

\* A handler that visits members has one left; what it is to record was accepted.
JobSound(w) ==
  /\ w.op \in {"deliver", "verify", "record"} => w.left # <<>>
  /\ w.op = "record" => AcceptedAs(w.by, w.id)

\* What was added to a tally since its copy arrived accepted, and is in it once.
TallySound(item) ==
  /\ item.given <= Len(item.ring.attested_by)
  /\ \A n \in item.given + 1 .. Len(item.ring.attested_by) :
       /\ AcceptedAs(item.ring.attested_by[n], item.id)
       /\ \A m \in 1..Len(item.ring.attested_by) :
            item.ring.attested_by[m] = item.ring.attested_by[n] => m = n

\* Who accepted a ring document as item n.
Acceptors(n) == { v.by : v \in { w \in verdicts : w.id = n } }

\* What was missing from the k of an opened copy was accepted.
OpeningSound(o) == o.k \in Nat /\ o.given \in Nat /\ Cardinality(Acceptors(o.id)) + o.given >= o.k

RingInv ==
  /\ RingTypeOK
  /\ \A c \in RingClerks : JobSound(job[c])
  /\ \A u \in Accounts : \A i \in copies[u] : TallySound(i)
  /\ \A o \in openings : OpeningSound(o)

-----------------------------------------------------------------------------
\* What a handler is at tells what it carries.
LEMMA JobKinds ==
  ASSUME NEW w \in Jobs
  PROVE  /\ w.op = "deliver" => w \in DeliverJob
         /\ w.op \in {"verify", "record"} => w \in AttestJob
         /\ w.op = "gate" => w \in GateJob
<1>1. CASE w = Idle
  BY <1>1 DEF Idle
<1>2. CASE w \in DeliverJob
  BY <1>2 DEF DeliverJob
<1>3. CASE w \in AttestJob
  BY <1>3 DEF AttestJob
<1>4. CASE w \in GateJob
  BY <1>4 DEF GateJob
<1>5. CASE w \in NoteJob
  BY <1>5 DEF NoteJob
<1>6. QED
  BY <1>1, <1>2, <1>3, <1>4, <1>5 DEF Jobs

\* Who accepted is a finite set.
LEMMA AcceptorsFinite ==
  ASSUME IsFiniteSet(verdicts), NEW n
  PROVE  IsFiniteSet(Acceptors(n)) /\ Cardinality(Acceptors(n)) \in Nat
<1> DEFINE S == { w \in verdicts : w.id = n }
           f == [v \in S |-> v.by]
<1>1. IsFiniteSet(S)
  BY FS_Subset
<1>2. f \in Surjection(S, Acceptors(n))
  BY DEF Surjection, Acceptors
<1>3. QED
  BY <1>1, <1>2, FS_Surjection, FS_CardinalityType

\* As acceptances are only added, what was counted stays counted.
LEMMA AcceptancesStay ==
  ASSUME RingInv, verdicts \subseteq verdicts', IsFiniteSet(verdicts')
  PROVE  /\ \A by, n : AcceptedAs(by, n) => AcceptedAs(by, n)'
         /\ \A o \in openings : OpeningSound(o)'
<1>1. \A by, n : AcceptedAs(by, n) => AcceptedAs(by, n)'
  BY DEF AcceptedAs
<1>2. ASSUME NEW o \in openings PROVE OpeningSound(o)'
  <2>1. Acceptors(o.id) \subseteq Acceptors(o.id)'
    BY DEF Acceptors
  <2>2. IsFiniteSet(Acceptors(o.id)') /\ Cardinality(Acceptors(o.id)') \in Nat
    <3> DEFINE S == { w \in verdicts' : w.id = o.id }
               f == [v \in S |-> v.by]
    <3>1. IsFiniteSet(S)
      BY FS_Subset
    <3>2. f \in Surjection(S, Acceptors(o.id)')
      BY DEF Surjection, Acceptors
    <3>3. QED
      BY <3>1, <3>2, FS_Surjection, FS_CardinalityType
  <2>3. Cardinality(Acceptors(o.id)) <= Cardinality(Acceptors(o.id)')
    BY <2>1, <2>2, FS_Subset
  <2>4. Cardinality(Acceptors(o.id)) \in Nat
    BY AcceptorsFinite DEF RingInv, RingTypeOK
  <2>5. /\ o.k \in Nat /\ o.given \in Nat
        /\ Cardinality(Acceptors(o.id)) + o.given >= o.k
    BY DEF RingInv, OpeningSound
  <2>6. ASSUME NEW a \in Nat, NEW b \in Nat, NEW g \in Nat, NEW k \in Nat, a <= b, a + g >= k
        PROVE  b + g >= k
    BY <2>6
  <2>7. Cardinality(Acceptors(o.id)') + o.given >= o.k
    BY <2>2, <2>3, <2>4, <2>5, <2>6
  <2>8. QED
    BY <2>5, <2>7 DEF OpeningSound
<1>3. QED
  BY <1>1, <1>2

\* What was added to a tally names as many accounts as it is long.
LEMMA TallyIsCount ==
  ASSUME IsFiniteSet(verdicts), NEW item \in Item, TallySound(item)
  PROVE  Cardinality(Acceptors(item.id)) + item.given >= Len(item.ring.attested_by)
<1> DEFINE s == item.ring.attested_by
           g == item.given
           added == [n \in g + 1 .. Len(s) |-> s[n]]
<1>1. s \in Seq(Accounts) /\ Len(s) \in Nat /\ g \in Nat /\ g <= Len(s)
  BY DEF Item, Demand, TallySound
<1>2. \A n \in g + 1 .. Len(s) : s[n] \in Acceptors(item.id)
  BY DEF TallySound, AcceptedAs, Acceptors
<1>3. \A n, m \in g + 1 .. Len(s) : s[n] = s[m] => n = m
  <2>1. g + 1 .. Len(s) \subseteq 1..Len(s)
    BY <1>1
  <2>2. QED
    BY <2>1 DEF TallySound
<1>4. added \in Injection(g + 1 .. Len(s), Acceptors(item.id))
  BY <1>2, <1>3 DEF Injection, IsInjective
<1>5. Cardinality(g + 1 .. Len(s)) <= Cardinality(Acceptors(item.id))
  BY <1>4, AcceptorsFinite, FS_Injection
<1>6. Cardinality(g + 1 .. Len(s)) = Len(s) - g
  <2>1. g + 1 \in Int /\ Len(s) \in Int
    BY <1>1
  <2>2. Cardinality(g + 1 .. Len(s)) = IF g + 1 > Len(s) THEN 0 ELSE Len(s) - (g + 1) + 1
    BY <2>1, FS_Interval
  <2>3. QED
    BY <1>1, <2>2
<1>7. QED
  BY <1>1, <1>5, <1>6, AcceptorsFinite

\* An attestation of who accepted leaves a sound tally sound.
LEMMA AttestedSound ==
  ASSUME NEW item \in Item, TallySound(item), NEW u \in Accounts, AcceptedAs(u, item.id)
  PROVE  Attested(item, u) \in Item /\ TallySound(Attested(item, u))
<1> DEFINE s == item.ring.attested_by
           g == item.given
<1>1. s \in Seq(Accounts) /\ Len(s) \in Nat /\ g \in Nat /\ g <= Len(s)
  BY DEF Item, Demand, TallySound
<1>2. CASE Contains(s, u)
  BY <1>2 DEF Attested
<1>3. CASE ~Contains(s, u)
  <2> DEFINE t == Attested(item, u)
             l == Append(s, u)
  <2>1. t = [item EXCEPT !.ring = [item.ring EXCEPT !.attested_by = l]]
    BY <1>3 DEF Attested, Item
  <2>2. t \in Item /\ t.id = item.id /\ t.given = g /\ t.ring.attested_by = l
    <3>1. [item.ring EXCEPT !.attested_by = l] \in Demand
      <4>1. l \in Seq(Accounts) /\ item.ring \in Demand
        BY <1>1 DEF Item
      <4>2. QED
        BY <4>1 DEF Demand
    <3>2. t.ring = [item.ring EXCEPT !.attested_by = l]
      BY <2>1 DEF Item
    <3>3. QED
      BY <2>1, <3>1, <3>2 DEF Item, Demand
  <2>3. /\ Len(l) = Len(s) + 1 /\ l[Len(s) + 1] = u
        /\ \A n \in 1..Len(s) : l[n] = s[n] /\ s[n] # u
    BY <1>1, <1>3 DEF Contains
  <2> HIDE DEF l, t
  <2>4. ASSUME NEW n \in g + 1 .. Len(s) + 1
        PROVE  AcceptedAs(l[n], item.id) /\ \A m \in 1 .. Len(s) + 1 : l[m] = l[n] => m = n
    <3>1. \A m \in 1 .. Len(s) + 1 : m \in 1..Len(s) \/ m = Len(s) + 1
      BY <1>1
    <3>2. CASE n = Len(s) + 1
      BY <2>3, <3>1, <3>2
    <3>3. CASE n # Len(s) + 1
      <4>1. n \in g + 1 .. Len(s) /\ n \in 1..Len(s)
        BY <1>1, <3>3
      <4>2. AcceptedAs(s[n], item.id) /\ \A m \in 1..Len(s) : s[m] = s[n] => m = n
        BY <4>1 DEF TallySound
      <4>3. QED
        BY <2>3, <3>1, <4>1, <4>2
    <3>4. QED
      BY <3>2, <3>3
  <2>5. QED
    BY <1>1, <2>2, <2>3, <2>4 DEF TallySound, t
<1>4. QED
  BY <1>2, <1>3

\* Of two members left or more, one remains after the first.
LEMMA TailLeft ==
  ASSUME NEW s \in Seq(Accounts), s # <<>>
  PROVE  /\ Head(s) \in Accounts
         /\ Len(s) # 1 => Tail(s) \in Seq(Accounts) /\ Tail(s) # <<>>
<1>1. Len(s) \in Nat /\ Len(s) # 0
  OBVIOUS
<1>2. Tail(s) \in Seq(Accounts) /\ Len(Tail(s)) = Len(s) - 1 /\ Head(s) \in Accounts
  BY <1>1
<1>3. Len(s) # 1 => Len(Tail(s)) # 0
  BY <1>1, <1>2
<1>4. QED
  BY <1>2, <1>3

\* A handler that records goes on with a member left, or is free.
LEMMA VisitedSound ==
  ASSUME RingInv, NEW c \in RingClerks, At(c, "record"), Visited(c)
  PROVE  /\ Head(job[c].left) \in Accounts
         /\ job' \in [RingClerks -> Jobs]
         /\ \A d \in RingClerks : JobSound(job'[d])
<1> DEFINE w == job[c]
<1>1. w \in AttestJob /\ JobSound(w) /\ w.left \in Seq(Accounts) /\ w.left # <<>>
  <2>1. w \in Jobs /\ JobSound(w)
    BY DEF RingInv, RingTypeOK
  <2>2. w \in AttestJob
    BY <2>1, JobKinds DEF At
  <2>3. QED
    BY <2>1, <2>2 DEF At, JobSound, AttestJob
<1>2. /\ Head(w.left) \in Accounts
      /\ Len(w.left) # 1 => Tail(w.left) \in Seq(Accounts) /\ Tail(w.left) # <<>>
  BY <1>1, TailLeft
<1>3. CASE Len(w.left) = 1
  <2>1. job' = [job EXCEPT ![c] = Idle]
    BY <1>3 DEF Visited, Free
  <2>2. JobSound(Idle)
    BY DEF JobSound, Idle
  <2>3. QED
    BY <1>2, <2>1, <2>2 DEF RingInv, RingTypeOK, Jobs
<1>4. CASE Len(w.left) # 1
  <2>1. job' = [job EXCEPT ![c].left = Tail(@)]
    BY <1>4 DEF Visited
  <2>2. job'[c] = [w EXCEPT !.left = Tail(@)] /\ \A d \in RingClerks : d # c => job'[d] = job[d]
    BY <2>1 DEF RingInv, RingTypeOK
  <2>3. job'[c] \in Jobs /\ JobSound(job'[c])
    BY <1>1, <1>2, <1>4, <2>2 DEF Jobs, AttestJob, JobSound
  <2>4. job' \in [RingClerks -> Jobs]
    BY <2>1, <2>2, <2>3 DEF RingInv, RingTypeOK
  <2>5. QED
    BY <1>2, <2>2, <2>3, <2>4 DEF RingInv
<1>5. QED
  BY <1>3, <1>4

\* A handler that delivers goes on with a member left, or has its record to make.
LEMMA DeliveredSound ==
  ASSUME RingInv, NEW c \in RingClerks, NEW reached \in BOOLEAN, At(c, "deliver"),
         Delivered(c, reached)
  PROVE  /\ job[c] \in DeliverJob
         /\ Head(job[c].left) \in Accounts
         /\ job' \in [RingClerks -> Jobs]
         /\ \A d \in RingClerks : JobSound(job'[d])
<1>0. PICK w : w = job[c]
  OBVIOUS
<1>1. w \in DeliverJob /\ w.left \in Seq(Accounts) /\ w.left # <<>>
  <2>1. w \in Jobs /\ JobSound(w) /\ w.op = "deliver"
    BY <1>0 DEF RingInv, RingTypeOK, At
  <2>2. w \in DeliverJob
    BY <2>1, JobKinds
  <2>3. QED
    BY <2>1, <2>2 DEF JobSound, DeliverJob
<1>2. /\ Head(w.left) \in Accounts
      /\ Len(w.left) # 1 => Tail(w.left) \in Seq(Accounts) /\ Tail(w.left) # <<>>
  BY <1>1, TailLeft
<1> DEFINE note == [op |-> "note", doc |-> w.doc, reached |-> reached]
           next == [w EXCEPT !.left = Tail(w.left), !.reached = reached]
<1>3. note \in Jobs /\ JobSound(note)
  BY <1>1 DEF DeliverJob, NoteJob, Jobs, JobSound
<1>4. Len(w.left) # 1 => next \in Jobs /\ JobSound(next)
  BY <1>1, <1>2 DEF DeliverJob, Jobs, JobSound
<1>5. job' = [job EXCEPT ![c] = IF Len(w.left) = 1 THEN note ELSE next]
  BY <1>0 DEF Delivered
<1> HIDE DEF note, next
<1>6. PICK n \in Jobs : JobSound(n) /\ job' = [job EXCEPT ![c] = n]
  BY <1>3, <1>4, <1>5
<1>7. QED
  BY <1>0, <1>1, <1>2, <1>6 DEF RingInv, RingTypeOK

\* A handler that takes up a sound job, or puts one down.
LEMMA TakeSound ==
  ASSUME RingInv, NEW c \in RingClerks, NEW w \in Jobs, JobSound(w), job' = [job EXCEPT ![c] = w]
  PROVE  job' \in [RingClerks -> Jobs] /\ \A d \in RingClerks : JobSound(job'[d])
BY DEF RingInv, RingTypeOK

-----------------------------------------------------------------------------
LEMMA RingInvInit == RingInit => RingInv
<1>1. SUFFICES ASSUME RingInit PROVE RingInv
  OBVIOUS
<1>2. RingTypeOK
  BY <1>1, FS_EmptySet DEF RingInit, RingTypeOK, Jobs
<1>3. \A c \in RingClerks : JobSound(job[c])
  BY <1>1 DEF RingInit, JobSound, Idle
<1>4. QED
  BY <1>1, <1>2, <1>3 DEF RingInit, RingInv

\* Nothing was added yet to the tally of a new copy.
LEMMA FiledSound ==
  ASSUME RingInv, NEW u \in Accounts, NEW doc \in Nat, NEW demand \in Demand,
         Filed(u, doc, demand), UNCHANGED verdicts
  PROVE  /\ copies' \in [Accounts -> SUBSET Item] /\ counter' \in [Accounts -> Nat]
         /\ \A a \in Accounts : \A i \in copies'[a] : TallySound(i)'
<1>0. PICK new : new = [id |-> counter[u], doc |-> doc, ring |-> demand,
                        given |-> Len(demand.attested_by)]
  OBVIOUS
<1>1. counter' \in [Accounts -> Nat]
  BY DEF Filed, RingInv, RingTypeOK
<1>2. new \in Item
  <2>1. counter[u] \in Nat /\ Len(demand.attested_by) \in Nat
    BY DEF Demand, RingInv, RingTypeOK
  <2>2. QED
    BY <1>0, <2>1 DEF Item
<1>3. copies' = [copies EXCEPT ![u] = @ \cup {new}]
  BY <1>0 DEF Filed
<1>4. copies' \in [Accounts -> SUBSET Item]
  BY <1>2, <1>3 DEF RingInv, RingTypeOK
<1>5. ASSUME NEW a \in Accounts, NEW i \in copies'[a] PROVE TallySound(i)'
  <2>1. i \in copies[a] \/ i = new
    BY <1>3, <1>5 DEF RingInv, RingTypeOK
  <2>2. CASE i \in copies[a]
    BY <2>2 DEF RingInv, TallySound, AcceptedAs
  <2>3. CASE i = new
    <3>1. i.given = Len(i.ring.attested_by) /\ i.given \in Nat
      BY <1>0, <1>2, <2>3 DEF Item
    <3>2. i.given + 1 .. Len(i.ring.attested_by) = {}
      BY <3>1
    <3>3. QED
      BY <3>1, <3>2 DEF TallySound
  <2>4. QED
    BY <2>1, <2>2, <2>3
<1>6. QED
  BY <1>1, <1>4, <1>5

\* Workspaces open, other items arrive, copies are deleted.
LEMMA InboxesKeep ==
  ASSUME RingInv,
         \E u \in Accounts : \/ OpenWorkspace(u)
                             \/ \E spec \in Specs : PlainArrives(u, spec)
                             \/ \E item \in copies[u] : DeleteCopy(u, item)
  PROVE  RingInv'
<1>1. UNCHANGED <<rings, job, verdicts, openings>>
  BY DEF OpenWorkspace, PlainArrives, DeleteCopy
<1>2. /\ copies' \in [Accounts -> SUBSET Item] /\ counter' \in [Accounts -> Nat]
      /\ \A a \in Accounts : \A i \in copies'[a] : TallySound(i)'
  <2>1. CASE \E u \in Accounts : OpenWorkspace(u)
    BY <2>1 DEF OpenWorkspace, RingInv, RingTypeOK, TallySound, AcceptedAs
  <2>2. CASE \E u \in Accounts : \E spec \in Specs : PlainArrives(u, spec)
    <3>1. PICK u \in Accounts, spec \in Specs : Filed(u, 0, spec)
      BY <2>2 DEF PlainArrives
    <3>2. spec \in Demand
      BY RingAssumption
    <3>3. QED
      BY <1>1, <3>1, <3>2, FiledSound
  <2>3. ASSUME NEW u \in Accounts, NEW item \in copies[u], DeleteCopy(u, item)
        PROVE  /\ copies' \in [Accounts -> SUBSET Item] /\ counter' \in [Accounts -> Nat]
               /\ \A a \in Accounts : \A i \in copies'[a] : TallySound(i)'
    <3>1. copies' = [copies EXCEPT ![u] = @ \ {item}] /\ UNCHANGED counter
      BY <2>3 DEF DeleteCopy
    <3>2. \A a \in Accounts : copies'[a] \subseteq copies[a]
      BY <3>1 DEF RingInv, RingTypeOK
    <3>3. copies' \in [Accounts -> SUBSET Item]
      BY <3>1 DEF RingInv, RingTypeOK
    <3>4. QED
      BY <1>1, <3>1, <3>2, <3>3 DEF RingInv, RingTypeOK, TallySound, AcceptedAs
  <2>4. QED
    BY <2>1, <2>2, <2>3
<1>3. QED
  BY <1>1, <1>2 DEF RingInv, RingTypeOK, JobSound, OpeningSound, AcceptedAs, Acceptors

\* Handlers take up a delivery, an attestation or an opening.
LEMMA BeginKeeps ==
  ASSUME RingInv, NEW c \in RingClerks,
         \/ \E request \in Rings : BeginRing(c, request)
         \/ \E u \in Accounts : \E item \in copies[u] :
              BeginAttest(c, u, item) \/ BeginOpen(c, u, item)
  PROVE  RingInv'
<1>1. UNCHANGED <<copies, counter, verdicts, openings>> /\ rings' \in Nat
  <2>1. rings \in Nat
    BY DEF RingInv, RingTypeOK
  <2>2. CASE \E request \in Rings : BeginRing(c, request)
    BY <2>1, <2>2 DEF BeginRing
  <2>3. CASE \E u \in Accounts : \E item \in copies[u] :
               BeginAttest(c, u, item) \/ BeginOpen(c, u, item)
    BY <2>1, <2>3 DEF BeginAttest, BeginOpen
  <2>4. QED
    BY <2>2, <2>3
<1>2. \E w \in Jobs : JobSound(w) /\ job' = [job EXCEPT ![c] = w]
  <2>1. ASSUME NEW request \in Rings, BeginRing(c, request)
        PROVE  \E w \in Jobs : JobSound(w) /\ job' = [job EXCEPT ![c] = w]
    <3> DEFINE w == [op |-> "deliver", doc |-> rings + 1, k |-> request.k,
                     members |-> request.members, left |-> request.members, reached |-> FALSE]
    <3>1. request.members \in Seq(Accounts) /\ Len(request.members) \in 1..8 /\ request.k \in Nat
      BY RingAssumption
    <3>2. request.members # <<>>
      BY <3>1
    <3>3. w \in Jobs
      BY <3>1 DEF Jobs, DeliverJob, RingInv, RingTypeOK
    <3>4. JobSound(w)
      BY <3>2 DEF JobSound
    <3>5. job' = [job EXCEPT ![c] = w]
      BY <2>1 DEF BeginRing, Take
    <3>6. QED
      BY <3>3, <3>4, <3>5
  <2>2. ASSUME NEW u \in Accounts, NEW item \in copies[u], BeginAttest(c, u, item)
        PROVE  \E w \in Jobs : JobSound(w) /\ job' = [job EXCEPT ![c] = w]
    <3> DEFINE w == [op |-> "verify", by |-> u, id |-> item.id, doc |-> item.doc,
                     members |-> item.ring.members, left |-> item.ring.members]
    <3>1. item \in Item /\ item.ring.members \in Seq(Accounts)
      BY DEF RingInv, RingTypeOK, Item, Demand
    <3>2. item.ring.members # <<>>
      BY <2>2, <3>1 DEF BeginAttest, Contains
    <3>3. w \in Jobs
      BY <3>1 DEF Jobs, AttestJob, Item
    <3>4. JobSound(w)
      BY <3>2 DEF JobSound
    <3>5. job' = [job EXCEPT ![c] = w]
      BY <2>2 DEF BeginAttest, Take
    <3>6. QED
      BY <3>3, <3>4, <3>5
  <2>3. ASSUME NEW u \in Accounts, NEW item \in copies[u], BeginOpen(c, u, item)
        PROVE  \E w \in Jobs : JobSound(w) /\ job' = [job EXCEPT ![c] = w]
    <3> DEFINE w == [op |-> "gate", by |-> u, id |-> item.id, doc |-> item.doc]
    <3>1. w \in Jobs
      BY DEF RingInv, RingTypeOK, Item, Jobs, GateJob
    <3>2. JobSound(w)
      BY DEF JobSound
    <3>3. job' = [job EXCEPT ![c] = w]
      BY <2>3 DEF BeginOpen, Take
    <3>4. QED
      BY <3>1, <3>2, <3>3
  <2>4. QED
    BY <2>1, <2>2, <2>3
<1>3. job' \in [RingClerks -> Jobs] /\ \A d \in RingClerks : JobSound(job'[d])
  BY <1>2, TakeSound
<1>4. QED
  BY <1>1, <1>3 DEF RingInv, RingTypeOK, JobSound, OpeningSound, TallySound, AcceptedAs,
     Acceptors

\* A member gets a copy, or has no workspace.
LEMMA DeliverKeeps ==
  ASSUME RingInv, NEW c \in RingClerks, DeliverCopy(c)
  PROVE  RingInv'
<1> DEFINE w == job[c]
           u == Head(w.left)
           demand == [asked |-> TRUE, k |-> w.k, members |-> w.members, attested_by |-> <<>>]
<1>1. /\ At(c, "deliver") /\ Delivered(c, w.reached \/ u \in open)
      /\ UNCHANGED <<rings, verdicts, openings>>
  BY DEF DeliverCopy
<1>2. w \in DeliverJob
  BY <1>1, JobKinds DEF At, RingInv, RingTypeOK
<1>3. /\ u \in Accounts /\ job' \in [RingClerks -> Jobs]
      /\ \A d \in RingClerks : JobSound(job'[d])
  <2>1. (w.reached \/ u \in open) \in BOOLEAN
    BY <1>2 DEF DeliverJob
  <2>2. QED
    BY <1>1, <2>1, DeliveredSound
<1>4. demand \in Demand /\ w.doc \in Nat
  BY <1>2 DEF DeliverJob, Demand
<1>5. /\ copies' \in [Accounts -> SUBSET Item] /\ counter' \in [Accounts -> Nat]
      /\ \A a \in Accounts : \A i \in copies'[a] : TallySound(i)'
  <2>1. CASE Filed(u, w.doc, demand)
    BY <1>1, <1>3, <1>4, <2>1, FiledSound
  <2>2. CASE UNCHANGED <<copies, counter>>
    BY <1>1, <2>2 DEF RingInv, RingTypeOK, TallySound, AcceptedAs
  <2>3. QED
    BY <2>1, <2>2 DEF DeliverCopy
<1>6. QED
  BY <1>1, <1>3, <1>5 DEF RingInv, RingTypeOK, JobSound, OpeningSound, AcceptedAs, Acceptors

\* The sender's record, and its deletion, leave the copies alone.
LEMMA NoteKeeps ==
  ASSUME RingInv,
         \/ \E c \in RingClerks : RecordRing(c)
         \/ \E record \in records : DeleteRecord(record)
  PROVE  RingInv'
<1>1. UNCHANGED <<copies, counter, rings, verdicts, openings>>
  BY DEF RecordRing, DeleteRecord
<1>2. job' \in [RingClerks -> Jobs] /\ \A d \in RingClerks : JobSound(job'[d])
  <2>1. CASE \E c \in RingClerks : RecordRing(c)
    <3>1. Idle \in Jobs /\ JobSound(Idle)
      BY DEF Jobs, JobSound, Idle
    <3>2. PICK c \in RingClerks : job' = [job EXCEPT ![c] = Idle]
      BY <2>1 DEF RecordRing, Free
    <3>3. QED
      BY <3>1, <3>2, TakeSound
  <2>2. CASE UNCHANGED job
    BY <2>2 DEF RingInv, RingTypeOK
  <2>3. QED
    BY <2>1, <2>2 DEF DeleteRecord
<1>3. QED
  BY <1>1, <1>2 DEF RingInv, RingTypeOK, JobSound, OpeningSound, TallySound, AcceptedAs,
     Acceptors

\* A member accepts or rejects its copy: an acceptance is noted.
LEMMA VerifyKeeps ==
  ASSUME RingInv, NEW c \in RingClerks, NEW ok \in BOOLEAN, VerifyCopy(c, ok)
  PROVE  RingInv'
<1>0. PICK w : w = job[c]
  OBVIOUS
<1> DEFINE done == IF ok THEN [w EXCEPT !.op = "record"] ELSE Idle
<1>1. UNCHANGED <<copies, counter, rings, openings>> /\ At(c, "verify")
  BY DEF VerifyCopy
<1>2. w \in AttestJob /\ w.left # <<>>
  BY <1>0, <1>1, JobKinds DEF At, RingInv, RingTypeOK, JobSound
<1>3. PICK whole : verdicts' = IF ok THEN verdicts \cup {[by |-> w.by, id |-> w.id, doc |-> w.doc,
                                                         whole |-> whole]}
                               ELSE verdicts
  BY <1>0 DEF VerifyCopy
<1>4. verdicts \subseteq verdicts' /\ IsFiniteSet(verdicts')
  BY <1>3, FS_AddElement DEF RingInv, RingTypeOK
<1>5. job' = [job EXCEPT ![c] = done]
  BY <1>0 DEF VerifyCopy, RingInv, RingTypeOK
<1>6. /\ done \in Jobs /\ (~ok => done.op = "none")
      /\ ok => /\ done.op = "record"
               /\ done.by = w.by /\ done.id = w.id /\ done.left = w.left
  BY <1>2 DEF AttestJob, Jobs, Idle
<1>7. job' \in [RingClerks -> Jobs]
  BY <1>5, <1>6 DEF RingInv, RingTypeOK
<1>8. ASSUME NEW d \in RingClerks PROVE JobSound(job[d])'
  <2>1. CASE d = c
    <3>1. job'[d] = done
      BY <1>5, <2>1 DEF RingInv, RingTypeOK
    <3>2. ok => AcceptedAs(w.by, w.id)'
      <4>1. SUFFICES ASSUME ok PROVE AcceptedAs(w.by, w.id)'
        OBVIOUS
      <4>2. [by |-> w.by, id |-> w.id, doc |-> w.doc, whole |-> whole] \in verdicts'
        BY <1>3, <4>1
      <4>3. QED
        BY <4>2 DEF AcceptedAs
    <3>3. QED
      BY <1>2, <1>6, <3>1, <3>2 DEF JobSound
  <2>2. CASE d # c
    <3>1. job'[d] = job[d]
      BY <1>5, <2>2 DEF RingInv, RingTypeOK
    <3>2. QED
      BY <1>4, <3>1, AcceptancesStay DEF RingInv, JobSound
  <2>3. QED
    BY <2>1, <2>2
<1>9. ASSUME NEW a \in Accounts, NEW i \in copies'[a] PROVE TallySound(i)'
  BY <1>1, <1>4, AcceptancesStay DEF RingInv, TallySound
<1>10. \A o \in openings' : OpeningSound(o)'
  BY <1>1, <1>4, AcceptancesStay DEF RingInv
<1>11. QED
  BY <1>1, <1>4, <1>7, <1>8, <1>9, <1>10 DEF RingInv, RingTypeOK

\* What was accepted is recorded at a member, in one tally.
LEMMA RecordKeeps ==
  ASSUME RingInv, NEW c \in RingClerks, RecordAttestation(c)
  PROVE  RingInv'
<1>0. PICK w : w = job[c]
  OBVIOUS
<1> DEFINE u == Head(w.left)
           New(i) == IF i.id = w.id /\ i.ring.asked THEN Attested(i, w.by) ELSE i
<1>1. At(c, "record") /\ Visited(c) /\ UNCHANGED <<counter, rings, verdicts, openings>>
  BY DEF RecordAttestation
<1>2. /\ u \in Accounts /\ job' \in [RingClerks -> Jobs]
      /\ \A d \in RingClerks : JobSound(job'[d])
  BY <1>0, <1>1, VisitedSound
<1>3. w \in AttestJob /\ AcceptedAs(w.by, w.id)
  BY <1>0, <1>1, JobKinds DEF At, RingInv, RingTypeOK, JobSound
<1>4. copies' = [copies EXCEPT ![u] = { New(i) : i \in copies[u] }]
  BY <1>0 DEF RecordAttestation
<1>5. ASSUME NEW a \in Accounts, NEW i \in copies[a]
      PROVE  New(i) \in Item /\ TallySound(New(i)) /\ i \in Item /\ TallySound(i)
  <2>1. i \in Item /\ TallySound(i)
    BY DEF RingInv, RingTypeOK
  <2>2. CASE i.id = w.id /\ i.ring.asked
    <3>1. Attested(i, w.by) \in Item /\ TallySound(Attested(i, w.by))
      BY <1>3, <2>1, <2>2, AttestedSound DEF AttestJob
    <3>2. QED
      BY <2>1, <2>2, <3>1
  <2>3. CASE ~(i.id = w.id /\ i.ring.asked)
    BY <2>1, <2>3
  <2>4. QED
    BY <2>2, <2>3
<1>6. ASSUME NEW a \in Accounts, NEW j \in copies'[a] PROVE j \in Item /\ TallySound(j)
  <2>1. CASE a = u
    <3>1. copies'[a] = { New(i) : i \in copies[u] }
      BY <1>2, <1>4, <2>1 DEF RingInv, RingTypeOK
    <3>2. PICK i \in copies[u] : j = New(i)
      BY <3>1
    <3>3. QED
      BY <1>2, <1>5, <3>2
  <2>2. CASE a # u
    <3>1. copies'[a] = copies[a]
      BY <1>4, <2>2 DEF RingInv, RingTypeOK
    <3>2. QED
      BY <1>5, <3>1
  <2>3. QED
    BY <2>1, <2>2
<1>7. copies' \in [Accounts -> SUBSET Item]
  <2>1. DOMAIN copies' = Accounts /\ copies' = [a \in Accounts |-> copies'[a]]
    BY <1>4 DEF RingInv, RingTypeOK
  <2>2. \A a \in Accounts : copies'[a] \subseteq Item
    BY <1>6
  <2>3. QED
    BY <2>1, <2>2
<1>8. ASSUME NEW a \in Accounts, NEW i \in copies'[a] PROVE TallySound(i)'
  <2>1. TallySound(i)
    BY <1>6
  <2>2. QED
    BY <1>1, <2>1 DEF TallySound, AcceptedAs
<1>9. QED
  BY <1>1, <1>2, <1>7, <1>8 DEF RingInv, RingTypeOK, JobSound, OpeningSound, AcceptedAs, Acceptors

\* A copy goes through the gate at k names, of k accounts that accepted.
LEMMA GateKeeps ==
  ASSUME RingInv, NEW c \in RingClerks, Gate(c)
  PROVE  RingInv'
<1>0. PICK w : w = job[c]
  OBVIOUS
<1>1. At(c, "gate") /\ UNCHANGED <<copies, counter, rings, verdicts>>
  BY DEF Gate
<1>2. w \in GateJob
  BY <1>0, <1>1, JobKinds DEF At, RingInv, RingTypeOK
<1>3. job' \in [RingClerks -> Jobs] /\ \A d \in RingClerks : JobSound(job'[d])
  <2>1. Idle \in Jobs /\ JobSound(Idle)
    BY DEF Jobs, JobSound, Idle
  <2>2. job' = [job EXCEPT ![c] = Idle]
    BY DEF Gate, Free
  <2>3. QED
    BY <2>1, <2>2, TakeSound
<1>4. ASSUME NEW o \in openings' PROVE OpeningSound(o)
  <2>1. CASE o \in openings
    BY <2>1 DEF RingInv
  <2>2. CASE o \notin openings
    <3>1. /\ Passes(Named(w.by, w.id))
          /\ o \in { [by |-> w.by, id |-> w.id, k |-> i.ring.k, given |-> i.given] :
                     i \in { n \in Named(w.by, w.id) : n.ring.asked } }
      BY <1>0, <1>4, <2>2 DEF Gate
    <3>2. PICK i \in copies[w.by] :
                 /\ i.id = w.id
                 /\ o = [by |-> w.by, id |-> w.id, k |-> i.ring.k, given |-> i.given]
                 /\ Len(i.ring.attested_by) >= i.ring.k
      BY <3>1 DEF Named, Passes
    <3>3. i \in Item /\ TallySound(i)
      BY <1>2 DEF GateJob, RingInv, RingTypeOK
    <3>4. /\ Cardinality(Acceptors(i.id)) + i.given >= Len(i.ring.attested_by)
          /\ Cardinality(Acceptors(i.id)) \in Nat
      BY <3>3, TallyIsCount, AcceptorsFinite DEF RingInv, RingTypeOK
    <3>5. Len(i.ring.attested_by) \in Nat /\ i.ring.k \in Nat /\ i.given \in Nat
      BY <3>3 DEF Item, Demand
    <3>6. Cardinality(Acceptors(i.id)) + i.given >= i.ring.k
      <4>1. ASSUME NEW a \in Nat, NEW g \in Nat, NEW l \in Nat, NEW k \in Nat, a + g >= l, l >= k
            PROVE  a + g >= k
        BY <4>1
      <4>2. QED
        BY <3>2, <3>4, <3>5, <4>1
    <3>7. QED
      BY <3>2, <3>5, <3>6 DEF OpeningSound
  <2>3. QED
    BY <2>1, <2>2
<1>5. QED
  BY <1>1, <1>3, <1>4 DEF RingInv, RingTypeOK, JobSound, OpeningSound, TallySound, AcceptedAs,
     Acceptors

-----------------------------------------------------------------------------
LEMMA RingInvStep == RingInv /\ [RingNext]_ringVars => RingInv'
<1>1. SUFFICES ASSUME RingInv, [RingNext]_ringVars PROVE RingInv'
  OBVIOUS
<1>2. CASE UNCHANGED ringVars
  <2>1. UNCHANGED <<copies, counter, rings, job, verdicts, openings>>
    BY <1>2 DEF ringVars
  <2>2. RingTypeOK'
    BY <1>1, <2>1 DEF RingInv, RingTypeOK
  <2>3. \A c \in RingClerks : JobSound(job[c])'
    BY <1>1, <2>1 DEF RingInv, JobSound, AcceptedAs
  <2>4. \A u \in Accounts : \A i \in copies'[u] : TallySound(i)'
    BY <1>1, <2>1 DEF RingInv, TallySound, AcceptedAs
  <2>5. \A o \in openings' : OpeningSound(o)'
    BY <1>1, <2>1 DEF RingInv, OpeningSound, Acceptors
  <2>6. QED
    BY <2>2, <2>3, <2>4, <2>5 DEF RingInv
<1>3. CASE RingNext
  BY <1>1, <1>3, InboxesKeep, BeginKeeps, DeliverKeeps, NoteKeeps, VerifyKeeps, RecordKeeps,
     GateKeeps DEF RingNext
<1>4. QED
  BY <1>1, <1>2, <1>3

\* Every tally names only members that accepted, and whoever is about to be recorded
\* has accepted, whatever ring_send and ring_attest do in parallel.
THEOREM RingInvAlways == RingBehaviour => []RingInv
<1>1. QED
  BY RingInvInit, RingInvStep, PTL DEF RingBehaviour

\* Beyond what was in it at arrival, a copy's tally counts acceptances: whoever was
\* added is not in it a second time, however many attestations run at once, and had
\* accepted a document as an own item of that number (ring_attest: checked, verified
\* without a lock, looked up again, pushed); peer_receive may file any tally.
THEOREM TallyAlwaysCountsAcceptances == RingBehaviour => []TallyCountsAcceptances
<1>1. RingInv => TallyCountsAcceptances
  <2>1. SUFFICES ASSUME RingInv, NEW u \in Accounts, NEW i \in copies[u],
                        NEW n \in i.given + 1 .. Len(i.ring.attested_by)
                 PROVE  /\ \A m \in DOMAIN i.ring.attested_by :
                             i.ring.attested_by[m] = i.ring.attested_by[n] => m = n
                        /\ \E v \in verdicts : v.by = i.ring.attested_by[n] /\ v.id = i.id
    BY DEF TallyCountsAcceptances
  <2>2. TallySound(i) /\ i.ring.attested_by \in Seq(Accounts)
    BY <2>1 DEF RingInv, RingTypeOK, Item, Demand
  <2>3. DOMAIN i.ring.attested_by = 1..Len(i.ring.attested_by)
    BY <2>2
  <2>4. QED
    BY <2>1, <2>2, <2>3 DEF TallySound, AcceptedAs
<1>2. QED
  BY <1>1, RingInvAlways, PTL

\* Past the gate of a copy that was there, so many different accounts had accepted
\* a document as their item of that number as were missing from its k when it
\* arrived (doc_open's gate counts names, whoever put them there): all k of them
\* for a copy that ring_send filed.
THEOREM AlwaysOpenedByQuorum == RingBehaviour => []OpenedByQuorum
<1>1. RingInv => OpenedByQuorum
  BY DEF RingInv, OpenedByQuorum, OpeningSound, Acceptors
<1>2. QED
  BY <1>1, RingInvAlways, PTL
-----------------------------------------------------------------------------
(***************************************************************************)
(* That a tally is shared.  A document has one delivery and one list of    *)
(* members, and its copies are at these members.  An attestation that came *)
(* after the delivery is on every copy of its number, or its handler still *)
(* has to visit the members whose copies lack it.                          *)
(***************************************************************************)
Visiting(w) == w.op \in {"deliver", "verify", "record"}

\* A copy, or a handler, knows the document by these members.
Names(doc, members) ==
  \/ \E u \in Accounts : \E i \in copies[u] : i.doc = doc /\ i.ring.members = members
  \/ \E c \in RingClerks : /\ Visiting(job[c])
                           /\ job[c].doc = doc /\ job[c].members = members

\* A copy of a ring's document is at a member; of other items nothing is known.
CopyPlaced(u, i) ==
  /\ i.doc \in 0..rings
  /\ i.doc # 0 => i.ring.asked /\ Contains(i.ring.members, u)

\* A handler visits members only, and verifies before its first visit.
VisitPlaced(w) ==
  /\ Visiting(w) => w.doc \in 0..rings
  /\ w.op = "deliver" =>
       w.doc # 0 /\ \A u \in Accounts : Contains(w.left, u) => Contains(w.members, u)
  /\ w.op = "verify" => w.left = w.members

OneDelivery ==
  \A c, d \in RingClerks :
    At(c, "deliver") /\ At(d, "deliver") /\ job[c].doc = job[d].doc => c = d

OneList == \A doc \in Nat \ {0} : \A m, n : Names(doc, m) /\ Names(doc, n) => m = n

\* The delivery of the document is complete.
Whole(v) == \A c \in RingClerks : At(c, "deliver") => job[c].doc # v.doc

\* The copies at u of the accepted item's document and number name its acceptor.
Told(v, u) ==
  \A i \in copies[u] : i.doc = v.doc /\ i.id = v.id => Contains(i.ring.attested_by, v.by)

\* The handler is recording this acceptance.
Telling(c, v) ==
  At(c, "record") /\ job[c].by = v.by /\ job[c].doc = v.doc /\ job[c].id = v.id

Spread(v) ==
  \/ \A u \in Accounts : Told(v, u)
  \/ \E c \in RingClerks : /\ Telling(c, v)
                           /\ \A u \in Accounts : ~Contains(job[c].left, u) => Told(v, u)

\* An acceptance of a ring's document, given after its delivery.
Ripe(v) == v.whole /\ v.doc # 0

SharedInv ==
  /\ RingInv
  /\ \A u \in Accounts : \A i \in copies[u] : CopyPlaced(u, i)
  /\ \A c \in RingClerks : VisitPlaced(job[c])
  /\ OneDelivery /\ OneList
  /\ \A v \in verdicts : v.doc \in 0..rings /\ (Ripe(v) => Whole(v) /\ Spread(v))

\* What a visit leaves of a list of members.
LEMMA ListFacts ==
  ASSUME NEW s \in Seq(Accounts), s # <<>>
  PROVE  /\ Head(s) \in Accounts /\ Contains(s, Head(s))
         /\ \A u : Contains(Tail(s), u) => Contains(s, u)
         /\ \A u : Contains(s, u) => u = Head(s) \/ Contains(Tail(s), u)
         /\ Len(s) = 1 => \A u : Contains(s, u) => u = Head(s)
<1>1. Len(s) \in Nat /\ Len(s) # 0 /\ Head(s) = s[1] /\ Head(s) \in Accounts
  OBVIOUS
<1>2. /\ Tail(s) \in Seq(Accounts) /\ Len(Tail(s)) = Len(s) - 1
      /\ \A n \in 1..(Len(s) - 1) : Tail(s)[n] = s[n + 1]
  BY <1>1
<1>3. 1 \in 1..Len(s)
  BY <1>1
<1>4. Contains(s, Head(s))
  BY <1>1, <1>3 DEF Contains
<1>5. ASSUME NEW u, Contains(Tail(s), u) PROVE Contains(s, u)
  <2>1. PICK n \in 1..(Len(s) - 1) : Tail(s)[n] = u
    BY <1>2, <1>5 DEF Contains
  <2>2. n + 1 \in 1..Len(s) /\ s[n + 1] = u
    BY <1>1, <1>2, <2>1
  <2>3. QED
    BY <2>2 DEF Contains
<1>6. ASSUME NEW u, Contains(s, u) PROVE u = Head(s) \/ Contains(Tail(s), u)
  <2>1. PICK n \in 1..Len(s) : s[n] = u
    BY <1>6 DEF Contains
  <2>2. CASE n = 1
    BY <1>1, <2>1, <2>2
  <2>3. CASE n # 1
    <3>1. n - 1 \in 1..(Len(s) - 1) /\ Tail(s)[n - 1] = u
      BY <1>1, <1>2, <2>1, <2>3
    <3>2. QED
      BY <1>2, <3>1 DEF Contains
  <2>4. QED
    BY <2>2, <2>3
<1>7. ASSUME Len(s) = 1, NEW u, Contains(s, u) PROVE u = Head(s)
  BY <1>1, <1>7 DEF Contains
<1>8. QED
  BY <1>1, <1>4, <1>5, <1>6, <1>7

\* A copy is what an earlier one was, with no name less in its tally.
Same(i, j) ==
  /\ j.id = i.id /\ j.doc = i.doc
  /\ j.ring.members = i.ring.members /\ j.ring.asked = i.ring.asked
  /\ \A a : Contains(i.ring.attested_by, a) => Contains(j.ring.attested_by, a)

\* Or it is new: of another delivery, or filed for a member by the ring's.
New(u, j) ==
  \/ j.doc = 0
  \/ \E c \in RingClerks :
       /\ At(c, "deliver") /\ j.doc = job[c].doc
       /\ j.ring.members = job[c].members /\ j.ring.asked
       /\ Contains(j.ring.members, u)

Sourced ==
  \A u \in Accounts : \A j \in copies'[u] : (\E i \in copies[u] : Same(i, j)) \/ New(u, j)

\* A handler has moved on, with a document that is known by its list.
Moved(c) ==
  /\ VisitPlaced(job'[c])
  /\ Visiting(job'[c]) /\ job'[c].doc # 0 => Names(job'[c].doc, job'[c].members)
  /\ job'[c].op = "deliver" => At(c, "deliver") /\ job'[c].doc = job[c].doc

\* Copies that name an acceptor stay, and no copy is added after the delivery.
LEMMA ToldStays ==
  ASSUME SharedInv, Sourced, NEW v \in verdicts, Ripe(v), NEW u \in Accounts, Told(v, u)
  PROVE  Told(v, u)'
<1>1. ASSUME NEW j \in copies'[u], j.doc = v.doc, j.id = v.id
      PROVE  Contains(j.ring.attested_by, v.by)
  <2>1. ~New(u, j)
    <3>1. Whole(v) /\ v.doc # 0
      BY DEF SharedInv, Ripe
    <3>2. QED
      BY <1>1, <3>1 DEF Whole, New
  <2>2. PICK i \in copies[u] : Same(i, j)
    BY <2>1 DEF Sourced
  <2>3. QED
    BY <1>1, <2>2 DEF Same, Told
<1>2. QED
  BY <1>1 DEF Told

\* A handler that moves takes nothing from the spread of an acceptance, unless it
\* was at its recording.
LEMMA SpreadStays ==
  ASSUME SharedInv, Sourced, NEW v \in verdicts, Ripe(v),
         \A c \in RingClerks : job'[c] = job[c] \/ ~Telling(c, v)
  PROVE  Spread(v)'
<1>1. CASE \A u \in Accounts : Told(v, u)
  BY <1>1, ToldStays DEF Spread
<1>2. CASE \E c \in RingClerks : /\ Telling(c, v)
                                 /\ \A u \in Accounts : ~Contains(job[c].left, u) => Told(v, u)
  <2>1. PICK c \in RingClerks : /\ Telling(c, v)
                                /\ \A u \in Accounts : ~Contains(job[c].left, u) => Told(v, u)
    BY <1>2
  <2>2. job'[c] = job[c]
    BY <2>1
  <2>3. Telling(c, v)'
    BY <2>1, <2>2 DEF Telling, At
  <2>4. \A u \in Accounts : ~Contains(job'[c].left, u) => Told(v, u)'
    BY <2>1, <2>2, ToldStays
  <2>5. QED
    BY <2>3, <2>4 DEF Spread
<1>3. QED
  BY <1>1, <1>2 DEF SharedInv, Spread

\* A step of handlers that move, with copies that have a source.
LEMMA ShareStep ==
  ASSUME SharedInv, RingInv', Sourced, rings' = rings,
         \A c \in RingClerks : job'[c] = job[c] \/ Moved(c),
         \A v \in verdicts' : v \in verdicts \/ (v.doc \in 0..rings /\ (Ripe(v) => Whole(v))),
         \A v \in verdicts' : Ripe(v) => Spread(v)'
  PROVE  SharedInv'
<1>1. ASSUME NEW u \in Accounts, NEW j \in copies'[u] PROVE CopyPlaced(u, j)'
  <2>1. CASE \E i \in copies[u] : Same(i, j)
    BY <2>1 DEF SharedInv, CopyPlaced, Same
  <2>2. CASE j.doc = 0
    BY <2>2 DEF CopyPlaced, SharedInv, RingInv, RingTypeOK
  <2>3. ASSUME NEW c \in RingClerks,
               At(c, "deliver"), j.doc = job[c].doc, j.ring.asked,
               Contains(j.ring.members, u)
        PROVE  CopyPlaced(u, j)'
    <3>1. VisitPlaced(job[c]) /\ rings \in Nat
      BY DEF SharedInv, RingInv, RingTypeOK
    <3>2. j.doc \in 0..rings /\ j.doc # 0
      BY <2>3, <3>1 DEF VisitPlaced, Visiting, At
    <3>3. j.doc \in 0..rings' /\ j.doc # 0
      BY <3>1, <3>2
    <3>4. QED
      BY <2>3, <3>2, <3>3 DEF CopyPlaced
  <2>4. QED
    BY <2>1, <2>2, <2>3 DEF Sourced, New
<1>2. ASSUME NEW c \in RingClerks PROVE VisitPlaced(job[c])'
  BY DEF SharedInv, Moved, VisitPlaced
<1>3. \A c \in RingClerks : At(c, "deliver")' => At(c, "deliver") /\ job'[c].doc = job[c].doc
  BY DEF Moved, At
<1>4. OneDelivery'
  BY <1>3 DEF SharedInv, OneDelivery
<1>5. ASSUME NEW doc \in Nat \ {0}, NEW m, Names(doc, m)' PROVE Names(doc, m)
  <2>1. ASSUME NEW u \in Accounts, NEW j \in copies'[u], j.doc = doc, j.ring.members = m
        PROVE  Names(doc, m)
    <3>1. CASE \E i \in copies[u] : Same(i, j)
      BY <2>1, <3>1 DEF Same, Names
    <3>2. ASSUME NEW c \in RingClerks,
                 At(c, "deliver"), j.doc = job[c].doc, j.ring.members = job[c].members
          PROVE  Names(doc, m)
      BY <2>1, <3>2 DEF Names, Visiting, At
    <3>3. QED
      BY <2>1, <3>1, <3>2 DEF Sourced, New
  <2>2. ASSUME NEW c \in RingClerks, Visiting(job'[c]), job'[c].doc = doc, job'[c].members = m
        PROVE  Names(doc, m)
    BY <2>2 DEF Moved, Names
  <2>3. QED
    BY <1>5, <2>1, <2>2 DEF Names, Visiting
<1>6. OneList'
  BY <1>5 DEF SharedInv, OneList
<1>7. ASSUME NEW v \in verdicts' PROVE v.doc \in 0..rings' /\ (Ripe(v) => Whole(v)')
  <2>1. v.doc \in 0..rings /\ (Ripe(v) => Whole(v))
    BY DEF SharedInv
  <2>2. Whole(v) => Whole(v)'
    BY <1>3 DEF Whole
  <2>3. QED
    BY <2>1, <2>2
<1>8. QED
  BY <1>1, <1>2, <1>4, <1>6, <1>7 DEF SharedInv

\* Copies that stay as they are have a source, and so have one's survivors.
LEMMA FewerSourced ==
  ASSUME \A u \in Accounts : copies'[u] \subseteq copies[u]
  PROVE  Sourced
BY DEF Sourced, Same
\* What a handler moves to is seen at that handler only.
LEMMA MovesOne ==
  ASSUME RingInv, NEW c \in RingClerks, NEW what, job' = [job EXCEPT ![c] = what]
  PROVE  \A d \in RingClerks : job'[d] = IF d = c THEN what ELSE job[d]
BY DEF RingInv, RingTypeOK

\* A handler that has recorded at a member goes on with the same acceptance, or is free.
LEMMA VisitedFields ==
  ASSUME RingInv, NEW c \in RingClerks, At(c, "record"), Visited(c)
  PROVE  /\ \A d \in RingClerks : d # c => job'[d] = job[d]
         /\ \/ job'[c] = Idle /\ Len(job[c].left) = 1
            \/ /\ job'[c].op = job[c].op /\ job'[c].doc = job[c].doc
               /\ job'[c].members = job[c].members /\ job'[c].left = Tail(job[c].left)
               /\ job'[c].by = job[c].by /\ job'[c].id = job[c].id
<1>0. PICK w : w = job[c]
  OBVIOUS
<1>1. w \in AttestJob
  BY <1>0, JobKinds DEF At, RingInv, RingTypeOK
<1>2. CASE Len(w.left) = 1
  <2>1. job' = [job EXCEPT ![c] = Idle]
    BY <1>0, <1>2 DEF Visited, Free
  <2>2. \A d \in RingClerks : job'[d] = IF d = c THEN Idle ELSE job[d]
    BY <2>1, MovesOne
  <2>3. QED
    BY <1>0, <1>2, <2>2
<1>3. CASE Len(w.left) # 1
  <2>1. PICK t : t = [w EXCEPT !.left = Tail(w.left)]
    OBVIOUS
  <2>2. job' = [job EXCEPT ![c] = t]
    <3>1. job' = [job EXCEPT ![c].left = Tail(@)]
      BY <1>0, <1>3 DEF Visited
    <3>2. QED
      BY <1>0, <2>1, <3>1 DEF RingInv, RingTypeOK
  <2>3. \A d \in RingClerks : job'[d] = IF d = c THEN t ELSE job[d]
    BY <2>2, MovesOne
  <2>4. t.op = w.op /\ t.doc = w.doc /\ t.members = w.members /\ t.left = Tail(w.left)
    BY <1>1, <2>1 DEF AttestJob
  <2>5. t.by = w.by /\ t.id = w.id
    BY <1>1, <2>1 DEF AttestJob
  <2>6. QED
    BY <1>0, <2>3, <2>4, <2>5
<1>4. QED
  BY <1>2, <1>3

\* A handler that has delivered to a member goes on with the same document, or has
\* its record to make.
LEMMA DeliveredFields ==
  ASSUME RingInv, NEW c \in RingClerks, NEW reached, At(c, "deliver"), Delivered(c, reached)
  PROVE  /\ \A d \in RingClerks : d # c => job'[d] = job[d]
         /\ \/ job'[c].op = "note"
            \/ /\ job'[c].op = "deliver" /\ job'[c].doc = job[c].doc
               /\ job'[c].members = job[c].members /\ job'[c].left = Tail(job[c].left)
<1>0. PICK w : w = job[c]
  OBVIOUS
<1>1. w \in DeliverJob
  BY <1>0, JobKinds DEF At, RingInv, RingTypeOK
<1>2. PICK t : t = IF Len(w.left) = 1 THEN [op |-> "note", doc |-> w.doc, reached |-> reached]
                   ELSE [w EXCEPT !.left = Tail(w.left), !.reached = reached]
  OBVIOUS
<1>3. job' = [job EXCEPT ![c] = t]
  BY <1>0, <1>2 DEF Delivered
<1>4. \A d \in RingClerks : job'[d] = IF d = c THEN t ELSE job[d]
  BY <1>3, MovesOne
<1>5. \/ t.op = "note"
      \/ t.op = "deliver" /\ t.doc = w.doc /\ t.members = w.members /\ t.left = Tail(w.left)
  BY <1>1, <1>2 DEF DeliverJob
<1>6. QED
  BY <1>0, <1>4, <1>5

\* Workspaces open, other items arrive, copies are deleted.
LEMMA InboxesShare ==
  ASSUME SharedInv, RingInv',
         \E u \in Accounts : \/ OpenWorkspace(u)
                             \/ \E spec \in Specs : PlainArrives(u, spec)
                             \/ \E item \in copies[u] : DeleteCopy(u, item)
  PROVE  SharedInv'
<1>1. UNCHANGED <<rings, job, verdicts>>
  BY DEF OpenWorkspace, PlainArrives, DeleteCopy
<1>2. Sourced
  <2>1. CASE \E u \in Accounts : OpenWorkspace(u)
    BY <2>1, FewerSourced DEF OpenWorkspace
  <2>2. ASSUME NEW u \in Accounts, NEW spec \in Specs, PlainArrives(u, spec) PROVE Sourced
    <3>1. PICK z : z = [id |-> counter[u], doc |-> 0, ring |-> spec,
                        given |-> Len(spec.attested_by)]
      OBVIOUS
    <3>2. copies' = [copies EXCEPT ![u] = @ \cup {z}] /\ z.doc = 0
      BY <2>2, <3>1 DEF PlainArrives, Filed
    <3>3. \A a \in Accounts : \A j \in copies'[a] : j \in copies[a] \/ j = z
      BY <3>2 DEF SharedInv, RingInv, RingTypeOK
    <3>4. QED
      BY <3>2, <3>3 DEF Sourced, Same, New
  <2>3. ASSUME NEW u \in Accounts, NEW item \in copies[u], DeleteCopy(u, item) PROVE Sourced
    <3>1. copies' = [copies EXCEPT ![u] = @ \ {item}]
      BY <2>3 DEF DeleteCopy
    <3>2. \A a \in Accounts : copies'[a] \subseteq copies[a]
      BY <3>1 DEF SharedInv, RingInv, RingTypeOK
    <3>3. QED
      BY <3>2, FewerSourced
  <2>4. QED
    BY <2>1, <2>2, <2>3
<1>3. \A v \in verdicts' : Ripe(v) => Spread(v)'
  BY <1>1, <1>2, SpreadStays
<1>4. QED
  BY <1>1, <1>2, <1>3, ShareStep

\* A delivery starts, of a document that nothing names so far.
LEMMA BeginRingShares ==
  ASSUME SharedInv, RingInv', NEW c \in RingClerks, NEW request \in Rings, BeginRing(c, request)
  PROVE  SharedInv'
<1> DEFINE what == [op |-> "deliver", doc |-> rings + 1, k |-> request.k,
                    members |-> request.members, left |-> request.members, reached |-> FALSE]
<1>1. /\ rings \in Nat /\ rings' = rings + 1 /\ At(c, "none")
      /\ UNCHANGED <<copies, verdicts>> /\ job' = [job EXCEPT ![c] = what]
  BY DEF BeginRing, Take, SharedInv, RingInv, RingTypeOK
<1>2. \A d \in RingClerks : job'[d] = IF d = c THEN what ELSE job[d]
  BY <1>1, MovesOne DEF SharedInv
<1>3. /\ what.op = "deliver" /\ what.doc = rings + 1
      /\ what.members = request.members /\ what.left = request.members
  OBVIOUS
<1> HIDE DEF what
<1>4. ASSUME NEW doc \in 0..rings PROVE doc \in 0..rings' /\ doc # rings + 1
  BY <1>1
<1>6. \A u \in Accounts : \A i \in copies'[u] : CopyPlaced(u, i)'
  BY <1>1, <1>4 DEF SharedInv, CopyPlaced
<1>7. ASSUME NEW d \in RingClerks PROVE VisitPlaced(job[d])'
  <2>1. CASE d = c
    <3>1. rings + 1 \in 0..rings' /\ rings + 1 # 0
      BY <1>1
    <3>2. QED
      BY <1>2, <1>3, <2>1, <3>1 DEF VisitPlaced
  <2>2. CASE d # c
    <3>1. job'[d] = job[d] /\ VisitPlaced(job[d])
      BY <1>2, <2>2 DEF SharedInv
    <3>2. QED
      BY <1>4, <3>1 DEF VisitPlaced
  <2>3. QED
    BY <2>1, <2>2
<1>8. \A d \in RingClerks : Visiting(job[d]) => job[d].doc # rings + 1
  BY <1>4 DEF SharedInv, VisitPlaced
<1>9. OneDelivery'
  BY <1>2, <1>3, <1>8 DEF SharedInv, OneDelivery, At, Visiting
<1>10. ASSUME NEW doc \in Nat \ {0}, NEW m, Names(doc, m)'
       PROVE  IF doc = rings + 1 THEN m = request.members ELSE Names(doc, m)
  <2>1. ASSUME NEW u \in Accounts, NEW i \in copies[u], i.doc = doc, i.ring.members = m
        PROVE  doc # rings + 1 /\ Names(doc, m)
    BY <1>4, <2>1 DEF SharedInv, CopyPlaced, Names
  <2>2. ASSUME NEW d \in RingClerks, Visiting(job'[d]), job'[d].doc = doc, job'[d].members = m
        PROVE  IF doc = rings + 1 THEN m = request.members ELSE Names(doc, m)
    BY <1>2, <1>3, <1>8, <2>2 DEF Names
  <2>3. QED
    BY <1>1, <1>10, <2>1, <2>2 DEF Names, Visiting
<1>11. OneList'
  BY <1>10 DEF SharedInv, OneList
<1>12. ASSUME NEW v \in verdicts' PROVE v.doc \in 0..rings' /\ (Ripe(v) => Whole(v)' /\ Spread(v)')
  <2>1. v.doc \in 0..rings' /\ v.doc # rings + 1 /\ (Ripe(v) => Whole(v))
    BY <1>1, <1>4 DEF SharedInv
  <2>2. Ripe(v) => Whole(v)'
    BY <1>2, <1>3, <2>1 DEF Whole, At
  <2>3. Ripe(v) => Spread(v)'
    <3>1. Sourced
      BY <1>1, FewerSourced
    <3>2. \A d \in RingClerks : job'[d] = job[d] \/ ~Telling(d, v)
      BY <1>1, <1>2 DEF Telling, At
    <3>3. QED
      BY <1>1, <3>1, <3>2, SpreadStays
  <2>4. QED
    BY <2>1, <2>2, <2>3
<1>13. QED
  BY <1>6, <1>7, <1>9, <1>11, <1>12 DEF SharedInv

\* A handler takes up an attestation or an opening, or is done with an opening or
\* with a sender's record.
LEMMA OtherShares ==
  ASSUME SharedInv, RingInv', NEW c \in RingClerks,
         \/ \E u \in Accounts : \E item \in copies[u] :
              BeginAttest(c, u, item) \/ BeginOpen(c, u, item)
         \/ Gate(c) \/ RecordRing(c)
  PROVE  SharedInv'
<1>1. UNCHANGED <<copies, rings, verdicts>> /\ (At(c, "none") \/ At(c, "gate") \/ At(c, "note"))
  BY DEF BeginAttest, BeginOpen, Gate, Take, RecordRing
<1>2. Sourced
  BY <1>1, FewerSourced
<1>3. Moved(c) /\ \A d \in RingClerks : d # c => job'[d] = job[d]
  <2>1. ASSUME NEW u \in Accounts, NEW item \in copies[u], BeginAttest(c, u, item)
        PROVE  Moved(c) /\ \A d \in RingClerks : d # c => job'[d] = job[d]
    <3> DEFINE what == [op |-> "verify", by |-> u, id |-> item.id, doc |-> item.doc,
                        members |-> item.ring.members, left |-> item.ring.members]
    <3>1. job' = [job EXCEPT ![c] = what] /\ Contains(item.ring.members, u)
      BY <2>1 DEF BeginAttest, Take
    <3>2. /\ what.op = "verify" /\ what.doc = item.doc
          /\ what.members = item.ring.members /\ what.left = item.ring.members
      OBVIOUS
    <3> HIDE DEF what
    <3>3. \A d \in RingClerks : job'[d] = IF d = c THEN what ELSE job[d]
      BY <3>1, MovesOne DEF SharedInv
    <3>4. item.doc \in 0..rings
      BY DEF SharedInv, CopyPlaced
    <3>5. Names(what.doc, what.members)
      BY <3>2 DEF Names
    <3>6. QED
      BY <3>2, <3>3, <3>4, <3>5 DEF Moved, VisitPlaced
  <2>2. ASSUME NEW what, job' = [job EXCEPT ![c] = what], what.op \in {"none", "gate"}
        PROVE  Moved(c) /\ \A d \in RingClerks : d # c => job'[d] = job[d]
    <3>1. \A d \in RingClerks : job'[d] = IF d = c THEN what ELSE job[d]
      BY <2>2, MovesOne DEF SharedInv
    <3>2. QED
      BY <2>2, <3>1 DEF Moved, VisitPlaced, Visiting
  <2>3. ASSUME NEW u \in Accounts, NEW item \in copies[u], BeginOpen(c, u, item)
        PROVE  Moved(c) /\ \A d \in RingClerks : d # c => job'[d] = job[d]
    <3> DEFINE what == [op |-> "gate", by |-> u, id |-> item.id, doc |-> item.doc]
    <3>1. job' = [job EXCEPT ![c] = what]
      BY <2>3 DEF BeginOpen, Take
    <3>2. what.op = "gate"
      OBVIOUS
    <3> HIDE DEF what
    <3>3. QED
      BY <2>2, <3>1, <3>2
  <2>4. CASE Gate(c) \/ RecordRing(c)
    <3>1. job' = [job EXCEPT ![c] = Idle] /\ Idle.op = "none"
      BY <2>4 DEF Gate, RecordRing, Free, Idle
    <3>2. QED
      BY <2>2, <3>1
  <2>5. QED
    BY <2>1, <2>3, <2>4
<1>4. ASSUME NEW v \in verdicts', Ripe(v) PROVE Spread(v)'
  <2>1. \A d \in RingClerks : job'[d] = job[d] \/ ~Telling(d, v)
    BY <1>1, <1>3 DEF Telling, At
  <2>2. QED
    BY <1>1, <1>2, <1>4, <2>1, SpreadStays
<1>5. QED
  BY <1>1, <1>2, <1>3, <1>4, ShareStep

\* A member gets a copy of the document its handler delivers.
LEMMA DeliverShares ==
  ASSUME SharedInv, RingInv', NEW c \in RingClerks, DeliverCopy(c)
  PROVE  SharedInv'
<1>0. PICK w : w = job[c]
  OBVIOUS
<1>1. /\ At(c, "deliver") /\ Delivered(c, w.reached \/ Head(w.left) \in open)
      /\ UNCHANGED <<rings, verdicts>>
  BY <1>0 DEF DeliverCopy
<1>2. w \in DeliverJob /\ w.left \in Seq(Accounts) /\ w.left # <<>> /\ VisitPlaced(w)
  BY <1>0, <1>1, JobKinds DEF At, SharedInv, RingInv, RingTypeOK, JobSound, DeliverJob
<1>3. Head(w.left) \in Accounts /\ Contains(w.members, Head(w.left))
  BY <1>0, <1>1, <1>2, ListFacts DEF VisitPlaced, At
<1>4. Sourced
  <2>1. CASE copies' = copies
    BY <2>1, FewerSourced
  <2>2. CASE copies' # copies
    <3> DEFINE u == Head(w.left)
               z == [id |-> counter[u], doc |-> w.doc,
                     ring |-> [asked |-> TRUE, k |-> w.k, members |-> w.members,
                               attested_by |-> <<>>],
                     given |-> Len(<<>>)]
    <3>1. copies' = [copies EXCEPT ![u] = @ \cup {z}]
      BY <1>0, <2>2 DEF DeliverCopy, Filed
    <3>2. z.doc = w.doc /\ z.ring.members = w.members /\ z.ring.asked
      OBVIOUS
    <3> HIDE DEF z
    <3>3. \A a \in Accounts : \A j \in copies'[a] : j \in copies[a] \/ (a = u /\ j = z)
      BY <1>3, <3>1 DEF SharedInv, RingInv, RingTypeOK
    <3>4. New(u, z)
      BY <1>0, <1>1, <1>3, <3>2 DEF New
    <3>5. QED
      BY <3>3, <3>4 DEF Sourced, Same
  <2>3. QED
    BY <2>1, <2>2
<1>5. Moved(c) /\ \A d \in RingClerks : d # c => job'[d] = job[d]
  <2>1. CASE job'[c].op = "note"
    BY <1>1, <2>1, DeliveredFields DEF SharedInv, Moved, VisitPlaced, Visiting
  <2>2. CASE job'[c].op # "note"
    <3>1. /\ \A d \in RingClerks : d # c => job'[d] = job[d]
          /\ job'[c].op = "deliver" /\ job'[c].doc = w.doc /\ job'[c].members = w.members
          /\ job'[c].left = Tail(w.left)
      BY <1>0, <1>1, <2>2, DeliveredFields DEF SharedInv
    <3>2. \A u \in Accounts : Contains(Tail(w.left), u) => Contains(w.members, u)
      BY <1>0, <1>1, <1>2, ListFacts DEF VisitPlaced, At
    <3>3. w.doc \in 0..rings /\ w.doc # 0
      BY <1>0, <1>1, <1>2 DEF VisitPlaced, Visiting, At
    <3>4. VisitPlaced(job'[c])
      BY <3>1, <3>2, <3>3 DEF VisitPlaced
    <3>5. Names(w.doc, w.members)
      BY <1>0, <1>1 DEF Names, Visiting, At
    <3>6. QED
      BY <1>0, <1>1, <3>1, <3>4, <3>5 DEF Moved
  <2>3. QED
    BY <2>1, <2>2
<1>6. ASSUME NEW v \in verdicts', Ripe(v) PROVE Spread(v)'
  <2>1. \A d \in RingClerks : job'[d] = job[d] \/ ~Telling(d, v)
    BY <1>1, <1>5 DEF Telling, At
  <2>2. QED
    BY <1>1, <1>4, <1>6, <2>1, SpreadStays
<1>7. QED
  BY <1>1, <1>4, <1>5, <1>6, ShareStep

\* An acceptance: its handler has all members before it.
LEMMA VerifyShares ==
  ASSUME SharedInv, RingInv', NEW c \in RingClerks, NEW ok \in BOOLEAN, VerifyCopy(c, ok)
  PROVE  SharedInv'
<1>0. PICK w : w = job[c]
  OBVIOUS
<1>1. UNCHANGED <<copies, rings>> /\ At(c, "verify")
  BY DEF VerifyCopy
<1>2. w \in AttestJob /\ w.op = "verify" /\ VisitPlaced(w)
  BY <1>0, <1>1, JobKinds DEF At, SharedInv, RingInv, RingTypeOK
<1>3. PICK done : done = IF ok THEN [w EXCEPT !.op = "record"] ELSE Idle
  OBVIOUS
<1>4. /\ ~ok => done.op = "none"
      /\ ok => /\ done.op = "record" /\ done.by = w.by /\ done.id = w.id
               /\ done.doc = w.doc /\ done.members = w.members /\ done.left = w.left
  BY <1>2, <1>3 DEF AttestJob, Idle
<1>5. \A d \in RingClerks : job'[d] = IF d = c THEN done ELSE job[d]
  <2>1. job' = [job EXCEPT ![c] = done]
    BY <1>0, <1>3 DEF VerifyCopy, SharedInv, RingInv, RingTypeOK
  <2>2. QED
    BY <2>1, MovesOne DEF SharedInv
<1>6. Sourced
  BY <1>1, FewerSourced
<1>7. Moved(c)
  <2>1. w.doc \in 0..rings
    BY <1>2 DEF VisitPlaced, Visiting
  <2>2. Names(w.doc, w.members)
    BY <1>0, <1>2 DEF Names, Visiting
  <2>3. QED
    BY <1>4, <1>5, <2>1, <2>2 DEF Moved, VisitPlaced, Visiting
<1>8. \A v \in verdicts' :
        \/ v \in verdicts
        \/ /\ ok /\ v.by = w.by /\ v.id = w.id /\ v.doc = w.doc
           /\ v.whole <=> ~\E d \in RingClerks : At(d, "deliver") /\ job[d].doc = w.doc
  <2>1. PICK whole : whole = ~\E d \in RingClerks : At(d, "deliver") /\ job[d].doc = w.doc
    OBVIOUS
  <2>2. verdicts' = IF ok THEN verdicts \cup {[by |-> w.by, id |-> w.id, doc |-> w.doc,
                                               whole |-> whole]}
                    ELSE verdicts
    BY <1>0, <2>1 DEF VerifyCopy
  <2>3. \A v \in verdicts' :
          v \in verdicts \/ (ok /\ v = [by |-> w.by, id |-> w.id, doc |-> w.doc, whole |-> whole])
    BY <2>2
  <2>4. \A v \in verdicts' :
          \/ v \in verdicts
          \/ ok /\ v.by = w.by /\ v.id = w.id /\ v.doc = w.doc /\ v.whole = whole
    BY <2>3
  <2>5. QED
    BY <2>1, <2>4, Zenon
<1>9. ASSUME NEW v \in verdicts'
      PROVE  v \in verdicts \/ (v.doc \in 0..rings /\ (Ripe(v) => Whole(v)))
  BY <1>2, <1>8 DEF Whole, Ripe, VisitPlaced, Visiting
<1>10. ASSUME NEW v \in verdicts', Ripe(v) PROVE Spread(v)'
  <2>1. CASE v \in verdicts
    <3>1. \A d \in RingClerks : job'[d] = job[d] \/ ~Telling(d, v)
      BY <1>1, <1>5 DEF Telling, At
    <3>2. QED
      BY <1>6, <1>10, <2>1, <3>1, SpreadStays
  <2>2. CASE v \notin verdicts
    <3>1. ok /\ v.by = w.by /\ v.id = w.id /\ v.doc = w.doc
      BY <1>8, <2>2
    <3>2. Telling(c, v)'
      BY <1>4, <1>5, <3>1 DEF Telling, At
    <3>3. ASSUME NEW u \in Accounts, NEW i \in copies'[u], i.doc = v.doc, ~Contains(w.left, u)
          PROVE  FALSE
      <4>1. w.doc \in 0..rings /\ w.doc # 0 /\ rings \in Nat
        BY <1>2, <1>10, <3>1 DEF Ripe, VisitPlaced, Visiting, SharedInv, RingInv, RingTypeOK
      <4>2. i.doc = w.doc /\ i.doc # 0 /\ i.doc \in Nat \ {0}
        BY <3>1, <3>3, <4>1
      <4>3. Contains(i.ring.members, u)
        BY <1>1, <4>2 DEF SharedInv, CopyPlaced
      <4>4. Names(i.doc, i.ring.members)
        BY <1>1 DEF Names
      <4>5. Names(i.doc, w.members)
        BY <1>0, <1>2, <4>2 DEF Names, Visiting
      <4>6. i.ring.members = w.members
        BY <4>2, <4>4, <4>5 DEF SharedInv, OneList
      <4>7. w.left = w.members
        BY <1>2 DEF VisitPlaced
      <4>8. QED
        BY <3>3, <4>3, <4>6, <4>7
    <3>4. \A u \in Accounts : ~Contains(job'[c].left, u) => Told(v, u)'
      BY <1>4, <1>5, <3>1, <3>3 DEF Told
    <3>5. QED
      BY <3>2, <3>4 DEF Spread
  <2>3. QED
    BY <2>1, <2>2
<1>11. QED
  BY <1>1, <1>5, <1>6, <1>7, <1>9, <1>10, ShareStep

\* An attestation adds a name to a copy, and takes nothing away.
LEMMA AttestedSame ==
  ASSUME NEW i \in Item, NEW u \in Accounts
  PROVE  Same(i, Attested(i, u)) /\ Contains(Attested(i, u).ring.attested_by, u)
<1> DEFINE s == i.ring.attested_by
<1>1. s \in Seq(Accounts) /\ Len(s) \in Nat
  BY DEF Item, Demand
<1>2. CASE Contains(s, u)
  BY <1>2 DEF Attested, Same
<1>3. CASE ~Contains(s, u)
  <2>1. PICK r : r = [i.ring EXCEPT !.attested_by = Append(s, u)]
    OBVIOUS
  <2>2. /\ r.asked = i.ring.asked /\ r.members = i.ring.members
        /\ r.attested_by = Append(s, u)
    BY <2>1 DEF Item, Demand
  <2>3. PICK j : j = [i EXCEPT !.ring = r]
    OBVIOUS
  <2>4. j.id = i.id /\ j.doc = i.doc /\ j.ring = r
    BY <2>3 DEF Item
  <2>5. Attested(i, u) = j
    BY <1>3, <2>1, <2>3 DEF Attested
  <2>6. /\ Len(Append(s, u)) = Len(s) + 1 /\ Append(s, u)[Len(s) + 1] = u
        /\ \A n \in 1..Len(s) : Append(s, u)[n] = s[n]
    BY <1>1
  <2>7. /\ Len(s) + 1 \in 1..Len(Append(s, u))
        /\ \A n \in 1..Len(s) : n \in 1..Len(Append(s, u))
    BY <1>1, <2>6
  <2>8. Contains(Append(s, u), u) /\ \A a : Contains(s, a) => Contains(Append(s, u), a)
    BY <2>6, <2>7 DEF Contains
  <2>9. QED
    BY <2>2, <2>4, <2>5, <2>8 DEF Same
<1>4. QED
  BY <1>2, <1>3

\* The copies with the number at one member, in one section of its lock.
LEMMA RecordShares ==
  ASSUME SharedInv, RingInv', NEW c \in RingClerks, RecordAttestation(c)
  PROVE  SharedInv'
<1>0. PICK w : w = job[c]
  OBVIOUS
<1> DEFINE at == Head(w.left)
           Recorded(i) == IF i.id = w.id /\ i.ring.asked THEN Attested(i, w.by) ELSE i
<1>1. At(c, "record") /\ Visited(c) /\ UNCHANGED <<rings, verdicts>>
  BY DEF RecordAttestation
<1>2. /\ w \in AttestJob /\ w.left \in Seq(Accounts) /\ w.left # <<>> /\ VisitPlaced(w)
      /\ w.op = "record"
  <2>1. w \in Jobs /\ w.op = "record" /\ JobSound(w) /\ VisitPlaced(w)
    BY <1>0, <1>1 DEF At, SharedInv, RingInv, RingTypeOK
  <2>2. w \in AttestJob
    BY <2>1, JobKinds
  <2>3. QED
    BY <2>1, <2>2 DEF JobSound, AttestJob
<1>3. /\ at \in Accounts
      /\ \A u : Contains(w.left, u) => u = at \/ Contains(Tail(w.left), u)
      /\ Len(w.left) = 1 => \A u : Contains(w.left, u) => u = at
  BY <1>2, ListFacts
<1>4. copies' = [copies EXCEPT ![at] = { Recorded(i) : i \in copies[at] }]
  BY <1>0 DEF RecordAttestation
<1>5. /\ copies'[at] = { Recorded(i) : i \in copies[at] }
      /\ \A u \in Accounts : u # at => copies'[u] = copies[u]
  BY <1>3, <1>4 DEF SharedInv, RingInv, RingTypeOK
<1>6. ASSUME NEW i \in copies[at]
      PROVE  /\ Same(i, Recorded(i))
             /\ i.id = w.id /\ i.ring.asked => Contains(Recorded(i).ring.attested_by, w.by)
  <2>1. i \in Item
    BY <1>3 DEF SharedInv, RingInv, RingTypeOK
  <2>2. Same(i, Attested(i, w.by)) /\ Contains(Attested(i, w.by).ring.attested_by, w.by)
    BY <1>2, <2>1, AttestedSame DEF AttestJob
  <2>3. Same(i, i)
    BY DEF Same
  <2>4. QED
    BY <2>2, <2>3
<1> HIDE DEF Recorded
<1>7. Sourced
  BY <1>5, <1>6 DEF Sourced, Same
<1>8. Moved(c) /\ \A d \in RingClerks : d # c => job'[d] = job[d]
  <2>1. CASE job'[c] = Idle
    BY <1>1, <2>1, VisitedFields DEF SharedInv, Moved, VisitPlaced, Visiting, Idle
  <2>2. CASE job'[c] # Idle
    <3>1. /\ \A d \in RingClerks : d # c => job'[d] = job[d]
          /\ job'[c].op = "record" /\ job'[c].doc = w.doc /\ job'[c].members = w.members
      BY <1>0, <1>1, <2>2, VisitedFields DEF SharedInv, At
    <3>2. w.doc \in 0..rings
      BY <1>2 DEF VisitPlaced, Visiting
    <3>3. Names(w.doc, w.members)
      BY <1>0, <1>2 DEF Names, Visiting
    <3>4. QED
      BY <1>1, <3>1, <3>2, <3>3 DEF Moved, VisitPlaced
  <2>3. QED
    BY <2>1, <2>2
<1>9. ASSUME NEW v \in verdicts, Ripe(v), Telling(c, v) PROVE Told(v, at)'
  <2>1. ASSUME NEW j \in copies'[at], j.doc = v.doc, j.id = v.id
        PROVE  Contains(j.ring.attested_by, v.by)
    <3>1. PICK i \in copies[at] : j = Recorded(i)
      BY <1>5
    <3>2. i.doc = v.doc /\ i.id = v.id
      BY <1>6, <2>1, <3>1 DEF Same
    <3>3. w.id = v.id /\ w.by = v.by
      BY <1>0, <1>9 DEF Telling
    <3>4. i.ring.asked
      <4>1. i.doc # 0
        BY <1>9, <3>2 DEF Ripe
      <4>2. QED
        BY <1>3, <4>1 DEF SharedInv, CopyPlaced
    <3>5. QED
      BY <1>6, <3>1, <3>2, <3>3, <3>4
  <2>2. QED
    BY <2>1 DEF Told
<1>10. ASSUME NEW v \in verdicts', Ripe(v) PROVE Spread(v)'
  <2>1. v \in verdicts /\ Spread(v)
    BY <1>1, <1>10 DEF SharedInv
  <2>2. CASE \A d \in RingClerks : job'[d] = job[d] \/ ~Telling(d, v)
    BY <1>7, <1>10, <2>1, <2>2, SpreadStays
  <2>3. CASE \A u \in Accounts : Told(v, u)
    BY <1>7, <1>10, <2>1, <2>3, ToldStays DEF Spread
  <2>4. ASSUME NEW d \in RingClerks, Telling(d, v),
               \A u \in Accounts : ~Contains(job[d].left, u) => Told(v, u)
        PROVE  Spread(v)'
    <3>1. CASE d # c
      <4>1. job'[d] = job[d]
        BY <1>8, <3>1
      <4>2. Telling(d, v)'
        BY <2>4, <4>1 DEF Telling, At
      <4>3. \A u \in Accounts : ~Contains(job'[d].left, u) => Told(v, u)'
        BY <1>7, <1>10, <2>1, <2>4, <4>1, ToldStays
      <4>4. QED
        BY <4>2, <4>3 DEF Spread
    <3>2. CASE d = c
      <4>1. Told(v, at)'
        BY <1>9, <1>10, <2>1, <2>4, <3>2
      <4>2. \A u \in Accounts : ~Contains(w.left, u) => Told(v, u)'
        BY <1>0, <1>7, <1>10, <2>1, <2>4, <3>2, ToldStays
      <4>3. CASE job'[c] = Idle
        <5>1. Len(w.left) = 1
          <6>1. Idle.op # "record"
            BY DEF Idle
          <6>2. QED
            BY <1>0, <1>1, <1>2, <4>3, <6>1, VisitedFields DEF SharedInv
        <5>2. \A u \in Accounts : Told(v, u)'
          BY <1>3, <4>1, <4>2, <5>1
        <5>3. QED
          BY <5>2 DEF Spread
      <4>4. CASE job'[c] # Idle
        <5>1. /\ job'[c].op = "record" /\ job'[c].doc = w.doc /\ job'[c].left = Tail(w.left)
              /\ job'[c].by = w.by /\ job'[c].id = w.id
          BY <1>0, <1>1, <4>4, VisitedFields DEF SharedInv, At
        <5>2. Telling(c, v)'
          BY <1>0, <2>4, <3>2, <5>1 DEF Telling, At
        <5>3. \A u \in Accounts : ~Contains(job'[c].left, u) => Told(v, u)'
          BY <1>3, <4>1, <4>2, <5>1
        <5>4. QED
          BY <5>2, <5>3 DEF Spread
      <4>5. QED
        BY <4>3, <4>4
    <3>3. QED
      BY <3>1, <3>2
  <2>5. QED
    BY <2>1, <2>3, <2>4 DEF Spread
<1>11. QED
  BY <1>1, <1>7, <1>8, <1>10, ShareStep

-----------------------------------------------------------------------------
\* What leaves the copies, the acceptances and the handlers alone leaves tallies shared.
LEMMA SharedApart ==
  ASSUME SharedInv, RingInv', UNCHANGED <<copies, rings, job, verdicts>>
  PROVE  SharedInv'
<1>1. Sourced
  BY FewerSourced
<1>2. \A v \in verdicts' : Ripe(v) => Spread(v)'
  BY <1>1, SpreadStays
<1>3. QED
  BY <1>1, <1>2, ShareStep

LEMMA SharedInvInit == RingInit => SharedInv
<1>1. SUFFICES ASSUME RingInit PROVE SharedInv
  OBVIOUS
<1>2. RingInv
  BY <1>1, RingInvInit
<1>3. \A c \in RingClerks : job[c].op = "none"
  BY <1>1 DEF RingInit, Idle
<1>4. /\ \A u \in Accounts : \A i \in copies[u] : CopyPlaced(u, i)
      /\ \A doc, m : ~Names(doc, m)
  BY <1>1, <1>3 DEF RingInit, Names, Visiting
<1>5. \A c \in RingClerks : VisitPlaced(job[c])
  BY <1>3 DEF VisitPlaced, Visiting
<1>6. OneDelivery /\ OneList
  BY <1>3, <1>4 DEF OneDelivery, OneList, At
<1>7. QED
  BY <1>1, <1>2, <1>4, <1>5, <1>6 DEF RingInit, SharedInv

LEMMA SharedInvStep == SharedInv /\ [RingNext]_ringVars => SharedInv'
<1>1. SUFFICES ASSUME SharedInv, [RingNext]_ringVars PROVE SharedInv'
  OBVIOUS
<1>2. RingInv'
  BY <1>1, RingInvStep DEF SharedInv
<1>3. CASE UNCHANGED ringVars
  BY <1>1, <1>2, <1>3, SharedApart DEF ringVars
<1>4. CASE RingNext
  <2>1. CASE \E record \in records : DeleteRecord(record)
    BY <1>1, <1>2, <2>1, SharedApart DEF DeleteRecord
  <2>2. QED
    BY <1>1, <1>2, <1>4, <2>1, InboxesShare, BeginRingShares, OtherShares, DeliverShares, VerifyShares,
       RecordShares DEF RingNext
<1>5. QED
  BY <1>1, <1>3, <1>4

\* "Shared tally": an attestation given after a ring's delivery was complete is, while
\* none is being recorded, on every copy of the document that carries the number -
\* for any rings, also ones that name an account twice, and whatever deliveries,
\* attestations and deletions run in parallel.
THEOREM AlwaysSharedWhereAligned == RingBehaviour => []SharedWhereAligned
<1>1. SharedInv => SharedWhereAligned
  <2>1. SUFFICES ASSUME SharedInv, \A c \in RingClerks : ~At(c, "record"),
                        NEW v \in verdicts, v.whole, v.doc # 0,
                        NEW i \in Copies, i.doc = v.doc, i.id = v.id
                 PROVE  Contains(i.ring.attested_by, v.by)
    BY DEF SharedWhereAligned
  <2>2. Spread(v)
    BY <2>1 DEF SharedInv, Ripe
  <2>3. \A u \in Accounts : Told(v, u)
    BY <2>1, <2>2 DEF Spread, Telling
  <2>4. PICK u \in Accounts : i \in copies[u]
    BY <2>1 DEF Copies
  <2>5. QED
    BY <2>1, <2>3, <2>4 DEF Told
<1>2. QED
  BY <1>1, SharedInvInit, SharedInvStep, PTL DEF RingBehaviour
=============================================================================
