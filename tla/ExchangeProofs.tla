--------------------------- MODULE ExchangeProofs ---------------------------
(***************************************************************************)
(* What holds of the document exchange for any accounts, keys, files and   *)
(* handlers:                                                               *)
(*                                                                         *)
(*   - an outbox record that says "delivered" is true (FiledInv: a         *)
(*     delivery that was filed is in an inbox of its destination;          *)
(*     DepositInv: a recorded deposit is in the mailbox under its code,    *)
(*     with a claim, or filed);                                            *)
(*   - a deposit is in one place (RelayInv: a code is in the mailbox, with *)
(*     one claim or in one inbox, and a claim is for an account that is    *)
(*     here, so that it cannot be refused after it took the deposit out);  *)
(*   - a document opens while the session remembers its key (KeysInv: the  *)
(*     j-th key before the last is in use or among the last j older ones); *)
(*   - an inbox says what is true of its items (InboxInv: numbers are used *)
(*     once, every key a session knows was captured, and what a handler    *)
(*     carries from one lock section to the next is true of its item);     *)
(*   - an attacked document does not pass (AttackInv: every container that *)
(*     is around was sealed by somebody or is damaged beyond repair).      *)
(***************************************************************************)
EXTENDS Exchange, FiniteSetTheorems, TLAPS

(***************************************************************************)
(* Containers                                                              *)
(***************************************************************************)
\* What passes under some keys passes under more.
LEMMA VerifyGrows ==
  ASSUME NEW bytes, NEW S, NEW T, S \subseteq T, VerifyAgainst(bytes, S) = "passed"
  PROVE  VerifyAgainst(bytes, T) = "passed"
<1> DEFINE parsed == ParseContainer(bytes)
           found(K) == IF parsed.sealed
                       THEN UNION { { VerifyDocument(doc, k) :
                                      doc \in UnsealEnvelope(parsed.doc, k) } : k \in K }
                       ELSE { VerifyDocument(doc, k) : doc \in {parsed.doc}, k \in K }
<1>1. found(S) \subseteq found(T)
  <2> HIDE DEF parsed
  <2>1. CASE parsed.sealed
    BY <2>1
  <2>2. CASE ~parsed.sealed
    BY <2>2
  <2>3. QED
    BY <2>1, <2>2
<1>2. \A K : VerifyAgainst(bytes, K) = IF \E o \in found(K) : Passed(o) THEN "passed"
                                     ELSE IF found(K) # {} THEN "failed" ELSE "none"
  BY DEF VerifyAgainst
<1> HIDE DEF found
<1>3. \E o \in found(S) : Passed(o)
  BY <1>2
<1>4. QED
  BY <1>1, <1>2, <1>3

\* More keys unseal at least the same documents.
LEMMA UnsealGrows ==
  ASSUME NEW bytes, NEW S, NEW T, S \subseteq T
  PROVE  UnsealAgainst(bytes, S) \subseteq UnsealAgainst(bytes, T)
BY DEF UnsealAgainst

\* A document with its fields written out.
Document(v, meta, body, tag, commit, key) ==
  [v |-> v, meta |-> meta, body |-> body, tag |-> tag, commit |-> commit, key |-> key]

\* The key is taken out of a document, or put in.
LEMMA Rekeyed ==
  ASSUME NEW v, NEW m, NEW b, NEW t, NEW c, NEW k, NEW n
  PROVE  [Document(v, m, b, t, c, k) EXCEPT !.key = n] = Document(v, m, b, t, c, n)
BY DEF Document

\* A sealed document opens under any keys that include its own, and gives back the file.
LEMMA SealedOpens ==
  ASSUME NEW k \in Keys, NEW S \in SUBSET Keys, k \in S, NEW file
  PROVE  OpenAgainst(ContainerBytes(SealDocument(file, k), TRUE), S) = {file}
<1> DEFINE key == Canonical[k]
           meta == Meta(file, "own")
           doc == Document(2, meta, Gcm(key, file, meta), Hmac(key, meta, file), key, key)
           json == [doc EXCEPT !.key = NoKey]
           bytes == [magic |-> "QSIG3", commit |-> key, body |-> Gcm(key, json, Magic)]
           shown == [v |-> 2, meta |-> HiddenMeta, body |-> bytes.body, tag |-> NoTag,
                     commit |-> key, key |-> NoKey]
<1>1. key \in Keys /\ key # NoKey
  BY CanonicalAssumption, SentinelAssumption
<1>2. ContainerBytes(SealDocument(file, k), TRUE) = bytes
  <2>1. SealDocument(file, k) = doc
    BY DEF SealDocument, Document
  <2>2. doc.key = key /\ doc.commit = key
    BY DEF Document
  <2> HIDE DEF doc, key
  <2>3. QED
    BY <1>1, <2>1, <2>2 DEF ContainerBytes
<1>3. ParseContainer(bytes) = [sealed |-> TRUE, doc |-> shown]
  BY DEF ParseContainer
<1>4. [json EXCEPT !.key = key] = doc
  <2>1. json = Document(2, meta, Gcm(key, file, meta), Hmac(key, meta, file), key, NoKey)
    BY Rekeyed
  <2> HIDE DEF json
  <2>2. QED
    BY <2>1, Rekeyed
<1>5. \A x \in S : UnsealEnvelope(shown, x) = IF Canonical[x] = key THEN {doc} ELSE {}
  <2>1. SUFFICES ASSUME NEW x \in S
                 PROVE  UnsealEnvelope(shown, x) = IF Canonical[x] = key THEN {doc} ELSE {}
    OBVIOUS
  <2>2. shown.commit = key /\ shown.body = Gcm(key, json, Magic)
    OBVIOUS
  <2>3. GcmOpen(Gcm(key, json, Magic), key, Magic) = {json}
    BY DEF GcmOpen, Gcm
  <2>4. CASE Canonical[x] = key
    <3>1. UnsealEnvelope(shown, x) = { [j EXCEPT !.key = key] : j \in {json} }
      BY <2>2, <2>3, <2>4 DEF UnsealEnvelope
    <3> HIDE DEF json, doc
    <3>2. QED
      BY <1>4, <2>4, <3>1
  <2>5. CASE Canonical[x] # key
    BY <2>2, <2>5 DEF UnsealEnvelope
  <2>6. QED
    BY <2>4, <2>5
<1>6. UnsealAgainst(bytes, S) = {doc}
  <2>1. UnsealAgainst(bytes, S) = UNION { UnsealEnvelope(shown, x) : x \in S }
    BY <1>3 DEF UnsealAgainst
  <2> HIDE DEF doc, shown, key, bytes
  <2>2. Canonical[k] = key
    BY DEF key
  <2>3. QED
    BY <1>5, <2>1, <2>2
<1>7. \A x \in S : OpenDocument(doc, x) = IF Canonical[x] = key THEN {file} ELSE {}
  <2>1. SUFFICES ASSUME NEW x \in S
                 PROVE  OpenDocument(doc, x) = IF Canonical[x] = key THEN {file} ELSE {}
    OBVIOUS
  <2>2. /\ doc.v = 2 /\ doc.commit = key /\ doc.body = Gcm(key, file, meta) /\ doc.meta = meta
        /\ doc.tag = Hmac(key, meta, file) /\ meta.hash = file
    BY DEF Meta, Document
  <2>3. GcmOpen(Gcm(key, file, meta), key, meta) = {file}
    BY DEF GcmOpen, Gcm
  <2> HIDE DEF doc, meta, key
  <2>4. CASE Canonical[x] = key
    <3>1. (CHOOSE f \in {file} : TRUE) = file /\ {file} # {}
      OBVIOUS
    <3>2. Passed(VerifyDocument(doc, x))
      BY <2>2, <2>3, <2>4, <3>1 DEF VerifyDocument, Passed
    <3>3. QED
      BY <2>2, <2>3, <2>4, <3>2 DEF OpenDocument
  <2>5. CASE Canonical[x] # key
    <3>1. ~Passed(VerifyDocument(doc, x))
      BY <2>2, <2>5 DEF VerifyDocument, Passed
    <3>2. QED
      BY <2>5, <3>1 DEF OpenDocument
  <2>6. QED
    BY <2>4, <2>5
<1>8. OpenAgainst(bytes, S) = UNION { OpenDocument(doc, x) : x \in S }
  <2> HIDE DEF doc, bytes
  <2>1. QED
    BY <1>6 DEF OpenAgainst
<1>9. QED
  <2>1. Canonical[k] = key
    OBVIOUS
  <2> HIDE DEF doc, bytes, key
  <2>2. \A x \in S : OpenDocument(doc, x) \subseteq {file}
    BY <1>7
  <2>3. OpenDocument(doc, k) = {file}
    BY <1>7, <2>1
  <2>4. UNION { OpenDocument(doc, x) : x \in S } = {file}
    BY <2>2, <2>3
  <2>5. QED
    BY <1>2, <1>8, <2>4
-----------------------------------------------------------------------------
\* The labels an attack leaves on the metadata.
Marks == {"swapped", "cut"}

\* A clear container with its fields written out.
Clear(v, hash, label, body, tag, commit) ==
  [magic |-> "QSIG1", doc |-> Document(v, Meta(hash, label), body, tag, commit, NoKey)]

\* What an attack has damaged stays damaged: Mallory's commitment, noise, a
\* ciphertext bound to other metadata, a tag of metadata that was not marked.
Broken(v, hash, label, body, tag, commit) ==
  /\ v \in {1, 2} /\ (v = 1 => hash # "other bytes")
  /\ \/ commit = "mallory"
     \/ body = Noise
     \/ /\ v = 2
        /\ \E key, plain, m : /\ body = Gcm(key, plain, m)
                              /\ m.hash # hash \/ (label \in Marks /\ m.label \notin Marks)
     \/ /\ v = 1 /\ label \in Marks
        /\ \E key, m, file : tag = Hmac(key, m, file) /\ m.label \notin Marks

IsBroken(bytes) ==
  \E v, hash, label, body, tag, commit :
    Broken(v, hash, label, body, tag, commit) /\ bytes = Clear(v, hash, label, body, tag, commit)

\* Other fields that an attack replaces.
LEMMA Remarked ==
  ASSUME NEW v, NEW h, NEW l, NEW b, NEW t, NEW c, NEW k, NEW x
  PROVE  [Document(v, Meta(h, l), b, t, c, k) EXCEPT !.meta.label = x]
           = Document(v, Meta(h, x), b, t, c, k)
<1> DEFINE doc == Document(v, Meta(h, l), b, t, c, k)
<1>1. [Meta(h, l) EXCEPT !.label = x] = Meta(h, x)
  BY DEF Meta
<1>2. [doc EXCEPT !.meta = Meta(h, x)] = Document(v, Meta(h, x), b, t, c, k) /\ doc.meta = Meta(h, l)
  BY DEF Document
<1>3. [doc EXCEPT !.meta.label = x] = [doc EXCEPT !.meta = [doc.meta EXCEPT !.label = x]]
  BY DEF Document
<1>4. QED
  BY <1>1, <1>2, <1>3

LEMMA Rebodied ==
  ASSUME NEW v, NEW m, NEW b, NEW t, NEW c, NEW k, NEW x
  PROVE  [Document(v, m, b, t, c, k) EXCEPT !.body = x] = Document(v, m, x, t, c, k)
BY DEF Document

LEMMA Recommitted ==
  ASSUME NEW v, NEW m, NEW b, NEW t, NEW c, NEW k, NEW x
  PROVE  [Document(v, m, b, t, c, k) EXCEPT !.commit = x] = Document(v, m, b, t, x, k)
BY DEF Document

LEMMA Retagged ==
  ASSUME NEW v, NEW m, NEW b, NEW t, NEW c, NEW k, NEW x
  PROVE  [Document(v, m, b, t, c, k) EXCEPT !.tag = x] = Document(v, m, b, x, c, k)
BY DEF Document

\* What the attacks make of a clear container.
LEMMA AttackedClear ==
  ASSUME NEW v, NEW h, NEW l, NEW b, NEW t, NEW c, NEW mode \in AttackModes
  PROVE  Attacked(Clear(v, h, l, b, t, c), mode) =
           CASE mode = "tamper_bytes" -> Clear(v, h, l, Noise, t, c)
             [] mode = "flips_cancel" -> Clear(v, h, l, b, t, c)
             [] mode = "swap_meta"    -> Clear(v, h, "swapped", b, t, c)
             [] mode = "reseal"       -> Clear(v, h, l, b, BareHmac("mallory", Meta(h, l)), "mallory")
             [] mode = "truncate"     -> Clear(v, h, "cut", Noise, t, c)
<1> DEFINE doc == Document(v, Meta(h, l), b, t, c, NoKey)
<1>1. ParseContainer(Clear(v, h, l, b, t, c)).doc = doc
  BY DEF ParseContainer, Clear
<1>2. doc.meta = Meta(h, l)
  BY DEF Document
<1>3. ASSUME NEW m, NEW x, NEW y, NEW z
      PROVE  ContainerBytes(Document(v, m, x, y, z, NoKey), FALSE)
               = [magic |-> "QSIG1", doc |-> Document(v, m, x, y, z, NoKey)]
  BY Rekeyed DEF ContainerBytes
<1>4. ParseContainer(Clear(v, h, l, b, t, c)).doc = doc /\ doc.meta = Meta(h, l)
  BY <1>1, <1>2
<1> HIDE DEF doc
<1>8. CASE mode = "tamper_bytes"
  <2>1. Attacked(Clear(v, h, l, b, t, c), mode) = ContainerBytes([doc EXCEPT !.body = Noise], FALSE)
    BY <1>1, <1>8, Zenon DEF Attacked
  <2>2. QED
    <3>1. [doc EXCEPT !.body = Noise] = Document(v, Meta(h, l), Noise, t, c, NoKey)
      BY Rebodied DEF doc
    <3>2. QED
      BY <1>3, <1>8, <2>1, <3>1, Zenon DEF Clear
<1>9. CASE mode = "flips_cancel"
  <2>1. Attacked(Clear(v, h, l, b, t, c), mode) = ContainerBytes(doc, FALSE)
    BY <1>1, <1>9, Zenon DEF Attacked
  <2>2. QED
    BY <1>3, <1>9, <2>1 DEF Clear, doc
<1>10. CASE mode = "swap_meta"
  <2>1. Attacked(Clear(v, h, l, b, t, c), mode)
          = ContainerBytes([doc EXCEPT !.meta.label = "swapped"], FALSE)
    BY <1>1, <1>10, Zenon DEF Attacked
  <2>2. QED
    <3>1. [doc EXCEPT !.meta.label = "swapped"] = Document(v, Meta(h, "swapped"), b, t, c, NoKey)
      BY Remarked DEF doc
    <3>2. Attacked(Clear(v, h, l, b, t, c), mode) = Clear(v, h, "swapped", b, t, c)
      BY <1>3, <2>1, <3>1 DEF Clear
    <3>3. QED
      BY <1>10, <3>2
<1>11. CASE mode = "reseal"
  <2> DEFINE tag == BareHmac("mallory", Meta(h, l))
  <2>1. Attacked(Clear(v, h, l, b, t, c), mode)
          = ContainerBytes([[doc EXCEPT !.commit = "mallory"] EXCEPT !.tag = tag], FALSE)
    BY <1>1, <1>2, <1>11, Zenon DEF Attacked
  <2>2. [doc EXCEPT !.commit = "mallory"] = Document(v, Meta(h, l), b, t, "mallory", NoKey)
    BY Recommitted DEF doc
  <2> HIDE DEF tag
  <2>3. [Document(v, Meta(h, l), b, t, "mallory", NoKey) EXCEPT !.tag = tag]
          = Document(v, Meta(h, l), b, tag, "mallory", NoKey)
    BY Retagged
  <2>4. Attacked(Clear(v, h, l, b, t, c), mode)
          = ContainerBytes(Document(v, Meta(h, l), b, tag, "mallory", NoKey), FALSE)
    BY <2>1, <2>2, <2>3, Zenon
  <2>5. QED
    BY <1>3, <1>11, <2>4 DEF Clear, tag
<1>12. CASE mode = "truncate"
  <2>1. Attacked(Clear(v, h, l, b, t, c), mode)
          = ContainerBytes([[doc EXCEPT !.body = Noise] EXCEPT !.meta.label = "cut"], FALSE)
    BY <1>1, <1>12, Zenon DEF Attacked
  <2>2. QED
    <3>1. [doc EXCEPT !.body = Noise] = Document(v, Meta(h, l), Noise, t, c, NoKey)
      BY Rebodied DEF doc
    <3>2. [Document(v, Meta(h, l), Noise, t, c, NoKey) EXCEPT !.meta.label = "cut"]
            = Document(v, Meta(h, "cut"), Noise, t, c, NoKey)
      BY Remarked
    <3>3. Attacked(Clear(v, h, l, b, t, c), mode)
            = ContainerBytes(Document(v, Meta(h, "cut"), Noise, t, c, NoKey), FALSE)
      BY <2>1, <3>1, <3>2, Zenon
    <3>4. QED
      BY <1>3, <1>12, <3>3 DEF Clear
<1>13. QED
  BY <1>8, <1>9, <1>10, <1>11, <1>12 DEF AttackModes

\* An attack on a damaged container leaves it damaged.
LEMMA BrokenStays ==
  ASSUME NEW bytes, IsBroken(bytes), NEW mode \in AttackModes
  PROVE  IsBroken(Attacked(bytes, mode))
<1>1. PICK v, h, l, b, t, c : Broken(v, h, l, b, t, c) /\ bytes = Clear(v, h, l, b, t, c)
  BY DEF IsBroken
<1>2. /\ Broken(v, h, l, Noise, t, c) /\ Broken(v, h, "cut", Noise, t, c)
      /\ Broken(v, h, l, b, BareHmac("mallory", Meta(h, l)), "mallory")
  BY <1>1 DEF Broken
<1>3. Broken(v, h, "swapped", b, t, c)
  BY <1>1 DEF Broken, Marks
<1>4. QED
  BY <1>1, <1>2, <1>3, AttackedClear DEF IsBroken, AttackModes

\* A container that somebody sealed, with an envelope, without, or long ago.
Genuine(bytes) ==
  \E file \in Docs, k \in Keys :
    \/ \E envelope \in BOOLEAN : bytes = ContainerBytes(SealDocument(file, k), envelope)
    \/ bytes = ContainerBytes(LegacyDocument(file, k), FALSE)

\* An attack on a sealed container damages it, or its flips cancel.
LEMMA GenuineBreaks ==
  ASSUME NEW bytes, Genuine(bytes), NEW mode \in AttackModes
  PROVE  Attacked(bytes, mode) = bytes \/ IsBroken(Attacked(bytes, mode))
<1>1. PICK file \in Docs, k \in Keys :
        \/ \E envelope \in BOOLEAN : bytes = ContainerBytes(SealDocument(file, k), envelope)
        \/ bytes = ContainerBytes(LegacyDocument(file, k), FALSE)
  BY DEF Genuine
<1> DEFINE key == Canonical[k]
           meta == Meta(file, "own")
           doc == Document(2, meta, Gcm(key, file, meta), Hmac(key, meta, file), key, key)
<1>2. key # NoKey /\ file # "other bytes" /\ meta.label \notin Marks /\ meta.hash = file
  BY CanonicalAssumption, SentinelAssumption DEF Marks, Meta
<1>3. SealDocument(file, k) = doc
  BY DEF SealDocument, Document
<1>4. CASE bytes = ContainerBytes(doc, TRUE)
  <2> DEFINE json == Document(2, meta, Gcm(key, file, meta), Hmac(key, meta, file), key, NoKey)
             body == Gcm(key, json, Magic)
             shown == Clear(2, NoFile, "sealed", body, NoTag, key)
  <2>1. bytes = [magic |-> "QSIG3", commit |-> key, body |-> body]
    <3>1. doc.key = key /\ doc.commit = key
      BY DEF Document
    <3>2. [doc EXCEPT !.key = NoKey] = json
      BY Rekeyed
    <3> HIDE DEF doc, key, json
    <3>3. QED
      BY <1>2, <1>4, <3>1, <3>2 DEF ContainerBytes
  <2>2. ParseContainer(bytes).doc = ParseContainer(shown).doc
    BY <2>1 DEF ParseContainer, Clear, Document, HiddenMeta
  <2>3. Attacked(bytes, mode) = Attacked(shown, mode)
    BY <2>2 DEF Attacked
  <2>4. Broken(2, NoFile, "sealed", body, NoTag, key)
    <3>1. Magic.hash # NoFile
      BY DEF Magic, NoFile, Meta
    <3>2. QED
      BY <3>1 DEF Broken
  <2>5. IsBroken(shown)
    BY <2>4 DEF IsBroken
  <2> HIDE DEF shown
  <2>6. QED
    BY <2>3, <2>5, BrokenStays
<1>5. ASSUME NEW v \in {1, 2}, NEW b, NEW t, NEW c, bytes = Clear(v, file, "own", b, t, c),
             v = 2 => b = Gcm(key, file, meta),
             v = 1 => \E x : t = Hmac(x, meta, file)
      PROVE  Attacked(bytes, mode) = bytes \/ IsBroken(Attacked(bytes, mode))
  <2> HIDE DEF key, meta
  <2>1. /\ Broken(v, file, "own", Noise, t, c) /\ Broken(v, file, "cut", Noise, t, c)
        /\ Broken(v, file, "own", b, BareHmac("mallory", Meta(file, "own")), "mallory")
    BY <1>2 DEF Broken
  <2>2. Broken(v, file, "swapped", b, t, c)
    BY <1>2, <1>5 DEF Broken, Marks
  <2>3. QED
    BY <1>5, <2>1, <2>2, AttackedClear DEF IsBroken, AttackModes
<1>6. CASE bytes = ContainerBytes(doc, FALSE)
  <2>1. bytes = Clear(2, file, "own", Gcm(key, file, meta), Hmac(key, meta, file), key)
    BY <1>6, Rekeyed DEF ContainerBytes, Clear
  <2>2. QED
    BY <1>5, <2>1
<1>7. CASE bytes = ContainerBytes(LegacyDocument(file, k), FALSE)
  <2>1. LegacyDocument(file, k) = Document(1, meta, Masked(k, file), Hmac(k, meta, file), k, NoKey)
    BY DEF LegacyDocument, Document
  <2>2. bytes = Clear(1, file, "own", Masked(k, file), Hmac(k, meta, file), k)
    BY <1>7, <2>1, Rekeyed DEF ContainerBytes, Clear
  <2>3. QED
    BY <1>5, <2>2
<1>8. QED
  BY <1>1, <1>3, <1>4, <1>6, <1>7

\* What a passing verdict says of a document.
LEMMA PassedSays ==
  ASSUME NEW doc, NEW k
  PROVE  LET plain == IF doc.v = 2 THEN GcmOpen(doc.body, Canonical[k], doc.meta)
                                   ELSE {Unmask(doc.body, k)}
             file == IF plain = {} THEN NoFile ELSE CHOOSE f \in plain : TRUE
         IN  Passed(VerifyDocument(doc, k)) <=>
               /\ doc.commit = IF doc.v = 2 THEN Canonical[k] ELSE k
               /\ doc.tag = Hmac(Canonical[k], doc.meta, file)
               /\ plain # {} /\ file = doc.meta.hash
BY Zenon DEF VerifyDocument, Passed

\* A damaged document passes under no key.
LEMMA BrokenFails ==
  ASSUME NEW v, NEW h, NEW l, NEW b, NEW t, NEW c, Broken(v, h, l, b, t, c),
         NEW k \in Keys
  PROVE  ~Passed(VerifyDocument(Document(v, Meta(h, l), b, t, c, NoKey), k))
<1> DEFINE meta == Meta(h, l)
           key == Canonical[k]
<1>0. PICK doc : doc = Document(v, meta, b, t, c, NoKey)
  OBVIOUS
<1> DEFINE plain == IF doc.v = 2 THEN GcmOpen(doc.body, key, doc.meta) ELSE {Unmask(doc.body, k)}
           file == IF plain = {} THEN NoFile ELSE CHOOSE f \in plain : TRUE
<1>1. meta.hash = h /\ meta.label = l
  BY DEF Meta
<1>2. key \in Keys
  BY CanonicalAssumption
<1>3. /\ doc.v = v /\ doc.meta = meta /\ doc.body = b /\ doc.tag = t /\ doc.commit = c
  BY <1>0 DEF Document
<1>s. SUFFICES ASSUME Passed(VerifyDocument(doc, k))
               PROVE  FALSE
  BY <1>0
<1>4. /\ c = IF v = 2 THEN key ELSE k
      /\ t = Hmac(key, meta, file)
      /\ plain # {} /\ file = h
  <2>1. /\ doc.commit = IF doc.v = 2 THEN key ELSE k
        /\ doc.tag = Hmac(key, doc.meta, file)
        /\ plain # {} /\ file = doc.meta.hash
    BY <1>s, PassedSays, Zenon
  <2> HIDE DEF plain, file, key, meta
  <2>2. QED
    BY <1>1, <1>3, <2>1
<1> HIDE DEF plain, file
<1>5. CASE c = "mallory"
  <2> HIDE DEF key
  <2>1. c # key /\ c # k
    BY <1>2, <1>5, SentinelAssumption
  <2>2. QED
    BY <1>4, <2>1
<1>6. CASE b = Noise
  <2>1. CASE v = 2
    <3>1. plain = {}
      BY <1>3, <1>6, <2>1 DEF GcmOpen, Noise, plain
    <3>2. QED
      BY <1>4, <3>1
  <2>2. CASE v = 1
    <3>1. plain = {"other bytes"}
      BY <1>3, <1>6, <2>2 DEF Unmask, Noise, plain
    <3>2. file = "other bytes" /\ h # "other bytes"
      BY <2>2, <3>1 DEF Broken, file
    <3>3. QED
      BY <1>4, <3>2
  <2>3. QED
    BY <2>1, <2>2 DEF Broken
<1>7. ASSUME v = 2, NEW x, NEW p, NEW m, b = Gcm(x, p, m),
             m.hash # h \/ (l \in Marks /\ m.label \notin Marks)
      PROVE  FALSE
  <2>1. m # meta
    BY <1>1, <1>7
  <2>2. plain = {}
    BY <1>3, <1>7, <2>1 DEF GcmOpen, Gcm, plain
  <2>3. QED
    BY <1>4, <2>2
<1>8. ASSUME l \in Marks, NEW x, NEW m, NEW f, t = Hmac(x, m, f), m.label \notin Marks
      PROVE  FALSE
  <2>1. m # meta
    BY <1>1, <1>8
  <2>2. t # Hmac(key, meta, file)
    <3> HIDE DEF file, key, meta
    <3>1. QED
      BY <1>8, <2>1 DEF Hmac
  <2>3. QED
    BY <1>4, <2>2
<1>9. QED
  BY <1>5, <1>6, <1>7, <1>8 DEF Broken

\* A damaged container passes and opens under no keys.
LEMMA BrokenNever ==
  ASSUME NEW bytes, IsBroken(bytes)
  PROVE  VerifyAgainst(bytes, Keys) # "passed" /\ OpenAgainst(bytes, Keys) = {}
<1>1. PICK v, h, l, b, t, c : Broken(v, h, l, b, t, c) /\ bytes = Clear(v, h, l, b, t, c)
  BY DEF IsBroken
<1> DEFINE doc == Document(v, Meta(h, l), b, t, c, NoKey)
<1>2. ParseContainer(bytes) = [sealed |-> FALSE, doc |-> doc]
  BY <1>1 DEF ParseContainer, Clear
<1>3. \A k \in Keys : ~Passed(VerifyDocument(doc, k))
  BY <1>1, BrokenFails
<1> HIDE DEF doc
<1>4. VerifyAgainst(bytes, Keys) # "passed"
  BY <1>2, <1>3 DEF VerifyAgainst
<1>5. UnsealAgainst(bytes, Keys) \subseteq {doc}
  BY <1>2 DEF UnsealAgainst
<1>6. \A k \in Keys : OpenDocument(doc, k) = {}
  BY <1>3 DEF OpenDocument
<1>7. OpenAgainst(bytes, Keys) = {}
  BY <1>5, <1>6 DEF OpenAgainst
<1>8. QED
  BY <1>4, <1>7
-----------------------------------------------------------------------------
(***************************************************************************)
(* What handlers are at, and the steps of the exchange                     *)
(***************************************************************************)
\* A delivery with its fields written out.
Parcel(op, via, by, to, bytes, code, bad, can, meta) ==
  [op |-> op, via |-> via, by |-> by, to |-> to, bytes |-> bytes, code |-> code, bad |-> bad,
   can |-> can, meta |-> meta]

Stages == {"judge", "reveal", "push", "filed", "refused"}

\* The forms of what a handler is at.
IsParcel(w) ==
  /\ w = Parcel(w.op, w.via, w.by, w.to, w.bytes, w.code, w.bad, w.can, w.meta)
  /\ w.op \in Stages /\ w.by \in Users /\ w.to \in Users
  /\ w.via \in {"local", "laptop", "receive", "theater", "relay"}
  /\ w.bad \in BOOLEAN /\ w.can \in BOOLEAN
IsCheck(w) == w = [op |-> "check", to |-> w.to, id |-> w.id, bytes |-> w.bytes] /\ w.to \in Users
IsVerdict(w) ==
  /\ w = [op |-> "verdict", to |-> w.to, id |-> w.id, passed |-> w.passed, meta |-> w.meta]
  /\ w.to \in Users /\ w.passed \in BOOLEAN
IsTransfer(w) == w = [op |-> "transfer", key |-> w.key] /\ w.key \in Keys
IsParked(w) == w = [op |-> "parked", by |-> w.by, bytes |-> w.bytes, under |-> w.under]

Shaped(w) ==
  w = NoWork \/ IsParcel(w) \/ IsCheck(w) \/ IsVerdict(w) \/ IsTransfer(w) \/ IsParked(w)

ShapeInv ==
  /\ profile \in Profiles
  /\ work = [c \in Clerks |-> work[c]]
  /\ \A c \in Clerks : Shaped(work[c])

\* A parcel with fields of the right kind, and its fields.
LEMMA IsParcelOf ==
  ASSUME NEW op \in Stages, NEW via \in {"local", "laptop", "receive", "theater", "relay"},
         NEW by \in Users, NEW to \in Users, NEW bytes, NEW code, NEW bad \in BOOLEAN,
         NEW can \in BOOLEAN, NEW meta
  PROVE  LET w == Parcel(op, via, by, to, bytes, code, bad, can, meta)
         IN  /\ IsParcel(w)
             /\ w.op = op /\ w.via = via /\ w.by = by /\ w.to = to /\ w.bytes = bytes
             /\ w.code = code /\ w.meta = meta
             /\ w.bad = bad /\ w.can = can
BY DEF IsParcel, Parcel

\* What a handler is at after its step; the others go on with theirs.
Turns(c, w) == work' = [work EXCEPT ![c] = w]

\* One handler moves at a time.
LEMMA TurnsOne ==
  ASSUME ShapeInv, NEW c \in Clerks, NEW w, Turns(c, w)
  PROVE  \A g \in Clerks : work'[g] = IF g = c THEN w ELSE work[g]
BY DEF ShapeInv, Turns

\* A handler turns to something of a known form.
LEMMA ShapeKept ==
  ASSUME ShapeInv, NEW c \in Clerks, NEW w, Turns(c, w), Shaped(w), profile' = profile
  PROVE  ShapeInv'
<1>1. work' = [g \in Clerks |-> work'[g]]
  BY DEF ShapeInv, Turns
<1>2. ASSUME NEW g \in Clerks
      PROVE  Shaped(work'[g])
  <2>1. work'[g] = w \/ work'[g] = work[g]
    BY TurnsOne
  <2>2. QED
    BY <2>1 DEF ShapeInv
<1>3. QED
  BY <1>1, <1>2 DEF ShapeInv

\* A stage of a delivery: what becomes of the work.
After(c, op, can, meta) ==
  LET w == work[c]
  IN  Turns(c, Parcel(op, w.via, w.by, w.to, w.bytes, w.code, w.bad, can, meta))

\* The operation tells the form.
LEMMA OpOf ==
  ASSUME NEW w, Shaped(w)
  PROVE  /\ w.op \in Stages <=> IsParcel(w)
         /\ w.op = "check" <=> IsCheck(w)
         /\ w.op = "verdict" <=> IsVerdict(w)
         /\ w.op = "transfer" <=> IsTransfer(w)
         /\ w.op = "parked" <=> IsParked(w)
         /\ w.op = "none" <=> w = NoWork
BY DEF Shaped, IsParcel, IsCheck, IsVerdict, IsTransfer, IsParked, NoWork, Stages, Parcel

\* deliver_local and peer_receive, the verdict: only the stage and `can` change.
LEMMA JudgeAfter ==
  ASSUME ShapeInv, NEW c \in Clerks, Judge(c)
  PROVE  /\ IsParcel(work[c]) /\ work[c].op = "judge"
         /\ After(c, IF work[c].via \in {"local", "theater"} THEN "reveal" ELSE "push",
                  VerifyAgainst(work[c].bytes, Known(work[c].to)) = "passed", work[c].meta)
<1>1. PICK w : w = work[c]
  OBVIOUS
<1> DEFINE op == IF w.via \in {"local", "theater"} THEN "reveal" ELSE "push"
           can == VerifyAgainst(w.bytes, Known(w.to)) = "passed"
<1>2. IsParcel(w) /\ w.op = "judge"
  BY <1>1, OpOf DEF ShapeInv, Judge, Doing, Stages
<1>3. work' = [[work EXCEPT ![c].op = op] EXCEPT ![c].can = can]
  BY <1>1, Zenon DEF Judge
<1> HIDE DEF op, can
<1>4. work' = [work EXCEPT ![c] = [[w EXCEPT !.op = op] EXCEPT !.can = can]]
  BY <1>1, <1>3 DEF ShapeInv
<1>5. [[w EXCEPT !.op = op] EXCEPT !.can = can]
        = Parcel(op, w.via, w.by, w.to, w.bytes, w.code, w.bad, can, w.meta)
  <2>1. w = Parcel(w.op, w.via, w.by, w.to, w.bytes, w.code, w.bad, w.can, w.meta)
    BY <1>2 DEF IsParcel
  <2>2. [w EXCEPT !.op = op] = Parcel(op, w.via, w.by, w.to, w.bytes, w.code, w.bad, w.can, w.meta)
    BY <2>1 DEF Parcel
  <2>3. PICK e : e = [w EXCEPT !.op = op]
    OBVIOUS
  <2>4. [e EXCEPT !.can = can] = Parcel(op, w.via, w.by, w.to, w.bytes, w.code, w.bad, can, w.meta)
    <3>1. e = Parcel(op, w.via, w.by, w.to, w.bytes, w.code, w.bad, w.can, w.meta)
      BY <2>2, <2>3
    <3>2. ASSUME NEW x
          PROVE  [e EXCEPT !.can = x]
                   = Parcel(op, w.via, w.by, w.to, w.bytes, w.code, w.bad, x, w.meta)
      BY <3>1 DEF Parcel
    <3>3. QED
      BY <3>2, Zenon
  <2>5. QED
    BY <2>3, <2>4, Zenon
<1>6. QED
  BY <1>1, <1>2, <1>4, <1>5, Zenon DEF op, can, After, Turns
\* deliver_local, peer_receive and relay_claim, the metadata: only the stage and `meta` change.
LEMMA RevealAfter ==
  ASSUME ShapeInv, NEW c \in Clerks, Reveal(c)
  PROVE  /\ IsParcel(work[c]) /\ work[c].op = "reveal"
         /\ After(c, IF work[c].via \in {"receive", "laptop"} THEN "judge" ELSE "push",
                  work[c].can, Shown(work[c]))
<1>1. PICK w : w = work[c]
  OBVIOUS
<1> DEFINE op == IF w.via \in {"receive", "laptop"} THEN "judge" ELSE "push"
           meta == Shown(w)
<1>2. IsParcel(w) /\ w.op = "reveal"
  BY <1>1, OpOf DEF ShapeInv, Reveal, Doing, Stages
<1>3. work' = [[work EXCEPT ![c].op = op] EXCEPT ![c].meta = meta]
  BY <1>1, Zenon DEF Reveal
<1> HIDE DEF op, meta
<1>4. work' = [work EXCEPT ![c] = [[w EXCEPT !.op = op] EXCEPT !.meta = meta]]
  BY <1>1, <1>3 DEF ShapeInv
<1>5. [[w EXCEPT !.op = op] EXCEPT !.meta = meta]
        = Parcel(op, w.via, w.by, w.to, w.bytes, w.code, w.bad, w.can, meta)
  <2>1. w = Parcel(w.op, w.via, w.by, w.to, w.bytes, w.code, w.bad, w.can, w.meta)
    BY <1>2 DEF IsParcel
  <2>2. [w EXCEPT !.op = op] = Parcel(op, w.via, w.by, w.to, w.bytes, w.code, w.bad, w.can, w.meta)
    BY <2>1 DEF Parcel
  <2>3. PICK e : e = [w EXCEPT !.op = op]
    OBVIOUS
  <2>4. [e EXCEPT !.meta = meta] = Parcel(op, w.via, w.by, w.to, w.bytes, w.code, w.bad, w.can, meta)
    <3>1. e = Parcel(op, w.via, w.by, w.to, w.bytes, w.code, w.bad, w.can, w.meta)
      BY <2>2, <2>3
    <3>2. ASSUME NEW x
          PROVE  [e EXCEPT !.meta = x]
                   = Parcel(op, w.via, w.by, w.to, w.bytes, w.code, w.bad, w.can, x)
      BY <3>1 DEF Parcel
    <3>3. QED
      BY <3>2, Zenon
  <2>5. QED
    BY <2>3, <2>4, Zenon
<1>6. QED
  BY <1>1, <1>2, <1>4, <1>5, Zenon DEF op, meta, After, Turns

\* Only the stage of a delivery changes.
LEMMA Restaged ==
  ASSUME ShapeInv, NEW c \in Clerks, IsParcel(work[c]), NEW op,
         work' = [work EXCEPT ![c].op = op]
  PROVE  After(c, op, work[c].can, work[c].meta)
<1>1. PICK w : w = work[c]
  OBVIOUS
<1>2. work' = [work EXCEPT ![c] = [w EXCEPT !.op = op]]
  BY <1>1 DEF ShapeInv
<1>3. [w EXCEPT !.op = op] = Parcel(op, w.via, w.by, w.to, w.bytes, w.code, w.bad, w.can, w.meta)
  <2>1. w = Parcel(w.op, w.via, w.by, w.to, w.bytes, w.code, w.bad, w.can, w.meta)
    BY <1>1 DEF IsParcel
  <2>2. QED
    BY <2>1 DEF Parcel
<1>4. QED
  BY <1>1, <1>2, <1>3, Zenon DEF After, Turns

\* The item that a delivery is filed as.
Item(w) ==
  [id |-> nextItem[w.to], bytes |-> w.bytes, meta |-> w.meta,
   verified |-> IF w.bad THEN "no" ELSE IF w.can THEN "yes" ELSE "unknown"]

\* What filing an item changes, with the item written out.
LEMMA PushSteps ==
  ASSUME ShapeInv, NEW c \in Clerks, Push(c), NEW w, w = work[c]
  PROVE  /\ IsParcel(w) /\ w.op = "push" /\ w.to \in here
         /\ inbox' = [inbox EXCEPT ![w.to] = @ \cup {Item(w)}]
         /\ nextItem' = [nextItem EXCEPT ![w.to] = @ + 1]
         /\ arrived' = arrived \cup {[to |-> w.to, id |-> nextItem[w.to], bytes |-> w.bytes]}
         /\ redeemed' = IF w.via = "relay" THEN Append(redeemed, w.code) ELSE redeemed
         /\ IF w.via \in {"local", "laptop"} THEN After(c, "filed", w.can, w.meta)
                                             ELSE Turns(c, NoWork)
         /\ UNCHANGED <<outbox, mailbox, codes, restarts>> /\ UNCHANGED keyVars
<1>1. IsParcel(w) /\ w.op = "push"
  BY OpOf DEF ShapeInv, Push, Doing, Stages
<1>2. IF w.via \in {"local", "laptop"} THEN work' = [work EXCEPT ![c].op = "filed"]
                                        ELSE Done(c)
  BY Zenon DEF Push
<1>3. IF w.via \in {"local", "laptop"} THEN After(c, "filed", w.can, w.meta)
                                        ELSE Turns(c, NoWork)
  BY <1>1, <1>2, Restaged, Zenon DEF Done, Turns
<1>4. nextItem[w.to] = Item(w).id
  BY DEF Item
<1>5. QED
  BY <1>1, <1>3, <1>4, Zenon DEF Push, Item, NewId

\* A refused delivery: at the push, or on the way to the other laptop.
LEMMA UndeliverableAfter ==
  ASSUME ShapeInv, NEW c \in Clerks, Undeliverable(c)
  PROVE  /\ IsParcel(work[c]) /\ work[c].op \in {"push", "reveal"}
         /\ work[c].op = "reveal" => work[c].via = "laptop"
         /\ After(c, "refused", work[c].can, work[c].meta)
<1>1. IsParcel(work[c]) /\ work[c].op \in {"push", "reveal"}
  BY OpOf DEF ShapeInv, Undeliverable, Doing, Stages
<1>2. work[c].op = "reveal" => work[c].via = "laptop"
  BY DEF Undeliverable, Doing
<1>3. QED
  BY <1>1, <1>2, Restaged, Zenon DEF Undeliverable

\* A new delivery, as a parcel,
LEMMA DeliveryIs ==
  ASSUME NEW via, NEW by, NEW to, NEW bytes, NEW code, NEW bad
  PROVE  Delivery(via, by, to, bytes, code, bad)
           = Parcel(IF via \in {"local", "theater"} THEN "judge" ELSE "reveal",
                    via, by, to, bytes, code, bad, FALSE, HiddenMeta)
BY Zenon DEF Delivery, Parcel

\* and as what a handler may be at.
LEMMA DeliveryShaped ==
  ASSUME NEW via \in {"local", "laptop", "receive", "theater", "relay"}, NEW by \in Users,
         NEW to \in Users, NEW bytes, NEW code, NEW bad \in BOOLEAN
  PROVE  Shaped(Delivery(via, by, to, bytes, code, bad))
<1> DEFINE op == IF via \in {"local", "theater"} THEN "judge" ELSE "reveal"
<1>1. op \in Stages
  BY DEF Stages
<1> HIDE DEF op
<1>2. ASSUME NEW can \in BOOLEAN
      PROVE  IsParcel(Parcel(op, via, by, to, bytes, code, bad, can, HiddenMeta))
  BY <1>1, IsParcelOf
<1>3. IsParcel(Parcel(op, via, by, to, bytes, code, bad, FALSE, HiddenMeta))
  BY <1>2, Zenon
<1>4. QED
  BY <1>3, DeliveryIs DEF Shaped, op

\* The steps, one by one; what the clients ask for in this behaviour plays no part.
OwnStep(u) ==
  \/ Login(u)
  \/ \E k \in Keys : Capture(u, k)
  \/ \E file \in Docs : DocSeal(u, file)
  \/ \E item \in inbox[u] : InboxDelete(u, item)
  \/ \E sent \in outbox[u] : OutboxDelete(u, sent)
OpenStep(bytes) == \E mode \in AttackModes : AttackDocument(bytes, mode)
BeginStep(c, u) ==
  \/ \E k \in Keys : BeginTransfer(c, u, k)
  \/ \E bytes \in held :
       \/ \E to \in Users, via \in {"local", "laptop"} : BeginSend(c, u, via, to, bytes)
       \/ BeginReceive(c, u, bytes)
       \/ \E by \in {u, Anyone} : RelayDeposit(c, by, bytes)
       \/ \E mode \in AttackModes : BeginTheater(c, u, bytes, mode)
  \/ \E item \in inbox[u] : BeginVerify(c, u, item)
  \/ \E deposit \in mailbox : BeginClaim(c, u, deposit)
LaterStep(c) ==
  \/ Judge(c) \/ Reveal(c) \/ Push(c) \/ Undeliverable(c) \/ RecordSent(c)
  \/ RecordDeposit(c) \/ CheckUnderKeys(c) \/ RecordVerdict(c) \/ PutBack(c) \/ EndTransfer(c)

LEMMA Steps ==
  ASSUME ExchangeNext
  PROVE  \/ \E u \in Users : OwnStep(u)
         \/ \E bytes \in held : OpenStep(bytes)
         \/ \E c \in profile.clerks : (\E u \in Users : BeginStep(c, u)) \/ LaterStep(c)
         \/ Restart
<1>1. CASE \E u \in Users :
             \/ Asked("login") /\ Login(u)
             \/ \E k \in Keys : Asked("key") /\ Capture(u, k)
             \/ \E file \in Docs : Asked("seal") /\ DocSeal(u, file)
             \/ \E item \in inbox[u] : Asked("delete") /\ InboxDelete(u, item)
             \/ \E sent \in outbox[u] : Asked("delete") /\ OutboxDelete(u, sent)
  BY <1>1, Zenon DEF OwnStep
<1>2. CASE \E bytes \in held, mode \in AttackModes : Asked("attack") /\ AttackDocument(bytes, mode)
  BY <1>2, Zenon DEF OpenStep
<1>3. ASSUME NEW c \in profile.clerks, NEW u \in Users,
             \/ \E k \in Keys : Asked("transfer") /\ BeginTransfer(c, u, k)
             \/ \E bytes \in held :
                  \/ \E to \in Users, via \in {"local", "laptop"} :
                       Asked("send") /\ BeginSend(c, u, via, to, bytes)
                  \/ Asked("receive") /\ BeginReceive(c, u, bytes)
                  \/ \E by \in {u, Anyone} : Asked("deposit") /\ RelayDeposit(c, by, bytes)
                  \/ \E mode \in AttackModes : Asked("theater") /\ BeginTheater(c, u, bytes, mode)
             \/ \E item \in inbox[u] : Asked("verify") /\ BeginVerify(c, u, item)
             \/ \E deposit \in mailbox : Asked("claim") /\ BeginClaim(c, u, deposit)
      PROVE  BeginStep(c, u)
  BY <1>3, Zenon DEF BeginStep
<1>4. QED
  BY <1>1, <1>2, <1>3, Zenon DEF ExchangeNext, LaterStep

\* What the handlers may be at after a step.
LEMMA WorkTurns ==
  ASSUME ShapeInv, ExchangeNext
  PROVE  \/ UNCHANGED work
         \/ work' = [c \in Clerks |-> NoWork]
         \/ \E c \in Clerks : \E w : Turns(c, w) /\ Shaped(w)
<1>1. profile.clerks \subseteq Clerks
  BY ExchangeAssumption DEF ShapeInv
<1>2. ASSUME NEW c \in Clerks, NEW w, Begin(c, w), Shaped(w)
      PROVE  \E d \in Clerks : \E x : Turns(d, x) /\ Shaped(x)
  BY <1>2, Zenon DEF Begin, Turns
<1>3. ASSUME NEW c \in Clerks, Done(c)
      PROVE  \E d \in Clerks : \E x : Turns(d, x) /\ Shaped(x)
  BY <1>3, Zenon DEF Done, Turns, Shaped
<1>4. ASSUME NEW c \in Clerks, NEW op \in Stages, NEW can \in BOOLEAN, NEW meta,
             IsParcel(work[c]), After(c, op, can, meta)
      PROVE  \E d \in Clerks : \E x : Turns(d, x) /\ Shaped(x)
  <2>1. PICK w : w = work[c]
    OBVIOUS
  <2>2. /\ w.via \in {"local", "laptop", "receive", "theater", "relay"}
        /\ w.by \in Users /\ w.to \in Users /\ w.bad \in BOOLEAN
    BY <1>4, <2>1 DEF IsParcel
  <2>3. IsParcel(Parcel(op, w.via, w.by, w.to, w.bytes, w.code, w.bad, can, meta))
    BY <2>2, IsParcelOf
  <2>4. QED
    BY <1>4, <2>1, <2>3, Zenon DEF After, Shaped
<1>5. ASSUME NEW u \in Users, OwnStep(u)
      PROVE  UNCHANGED work
  BY <1>5, Zenon DEF OwnStep, Login, Capture, DocSeal, InboxDelete, OutboxDelete
<1>6. ASSUME NEW bytes \in held, OpenStep(bytes)
      PROVE  UNCHANGED work
  BY <1>6, Zenon DEF OpenStep, AttackDocument
<1>7. ASSUME NEW c \in Clerks, NEW u \in Users, NEW k \in Keys, BeginTransfer(c, u, k)
      PROVE  \E d \in Clerks : \E x : Turns(d, x) /\ Shaped(x)
  <2>1. Shaped([op |-> "transfer", key |-> k])
    BY DEF Shaped, IsTransfer
  <2>2. QED
    BY <1>2, <1>7, <2>1, Zenon DEF BeginTransfer
<1>8. ASSUME NEW c \in Clerks, NEW u \in Users, NEW bytes \in held,
             \/ \E to \in Users, via \in {"local", "laptop"} : BeginSend(c, u, via, to, bytes)
             \/ BeginReceive(c, u, bytes)
             \/ \E mode \in AttackModes : BeginTheater(c, u, bytes, mode)
      PROVE  \E d \in Clerks : \E x : Turns(d, x) /\ Shaped(x)
  BY <1>2, <1>8, DeliveryShaped, Zenon DEF BeginSend, BeginReceive, BeginTheater
<1>9. ASSUME NEW c \in Clerks, NEW u \in Users, NEW deposit \in mailbox, BeginClaim(c, u, deposit)
      PROVE  \E d \in Clerks : \E x : Turns(d, x) /\ Shaped(x)
  BY <1>2, <1>9, DeliveryShaped, Zenon DEF BeginClaim
<1>10. ASSUME NEW c \in Clerks, NEW u \in Users, NEW item \in inbox[u], BeginVerify(c, u, item)
       PROVE  \E d \in Clerks : \E x : Turns(d, x) /\ Shaped(x)
  <2>1. Shaped([op |-> "check", to |-> u, id |-> item.id, bytes |-> item.bytes])
    BY DEF Shaped, IsCheck
  <2>2. QED
    BY <1>2, <1>10, <2>1, Zenon DEF BeginVerify
<1>11. ASSUME NEW c \in Clerks, Judge(c) \/ Reveal(c) \/ Push(c) \/ Undeliverable(c)
       PROVE  \E d \in Clerks : \E x : Turns(d, x) /\ Shaped(x)
  <2>1. CASE Judge(c)
    <3>1. (IF work[c].via \in {"local", "theater"} THEN "reveal" ELSE "push") \in Stages
      BY DEF Stages
    <3>2. (VerifyAgainst(work[c].bytes, Known(work[c].to)) = "passed") \in BOOLEAN
      OBVIOUS
    <3>3. QED
      BY <1>4, <2>1, <3>1, <3>2, JudgeAfter, Zenon
  <2>2. CASE Reveal(c)
    <3>1. (IF work[c].via \in {"receive", "laptop"} THEN "judge" ELSE "push") \in Stages
      BY DEF Stages
    <3>2. work[c].can \in BOOLEAN
      BY <2>2, RevealAfter DEF IsParcel
    <3>3. QED
      BY <1>4, <2>2, <3>1, <3>2, RevealAfter, Zenon
  <2>3. CASE Push(c)
    <3>1. Turns(c, NoWork) \/ After(c, "filed", work[c].can, work[c].meta)
      BY <2>3, PushSteps
    <3>2. "filed" \in Stages /\ work[c].can \in BOOLEAN /\ IsParcel(work[c])
      BY <2>3, PushSteps DEF IsParcel, Stages
    <3>3. QED
      BY <1>4, <3>1, <3>2, Zenon DEF Shaped
  <2>4. CASE Undeliverable(c)
    <3>1. "refused" \in Stages /\ work[c].can \in BOOLEAN /\ IsParcel(work[c])
      BY <2>4, UndeliverableAfter DEF IsParcel, Stages
    <3>2. QED
      BY <1>4, <2>4, <3>1, UndeliverableAfter, Zenon
  <2>5. QED
    BY <1>11, <2>1, <2>2, <2>3, <2>4
<1>12. ASSUME NEW c \in Clerks, CheckUnderKeys(c)
       PROVE  \E d \in Clerks : \E x : Turns(d, x) /\ Shaped(x)
  <2>1. PICK w : w = work[c]
    OBVIOUS
  <2>2. IsCheck(w)
    BY <1>12, <2>1, OpOf DEF ShapeInv, CheckUnderKeys, Doing
  <2>3. CASE Done(c)
    BY <1>3, <2>3
  <2>4. ASSUME NEW p \in BOOLEAN, NEW meta,
               Turns(c, [op |-> "verdict", to |-> w.to, id |-> w.id, passed |-> p, meta |-> meta])
        PROVE  \E d \in Clerks : \E x : Turns(d, x) /\ Shaped(x)
    <3>1. w.to \in Users
      BY <2>2 DEF IsCheck
    <3>2. PICK v : v = [op |-> "verdict", to |-> w.to, id |-> w.id, passed |-> p, meta |-> meta]
      OBVIOUS
    <3>3. IsVerdict(v)
      BY <3>1, <3>2 DEF IsVerdict
    <3>4. QED
      BY <2>4, <3>2, <3>3, Zenon DEF Shaped
  <2>5. (VerifyAgainst(w.bytes, Known(w.to)) = "passed") \in BOOLEAN
    OBVIOUS
  <2>6. QED
    BY <1>12, <2>1, <2>3, <2>4, <2>5, Zenon DEF CheckUnderKeys, Turns
<1>13. ASSUME NEW c \in Clerks,
              RecordSent(c) \/ RecordDeposit(c) \/ RecordVerdict(c) \/ PutBack(c) \/ EndTransfer(c)
       PROVE  \E d \in Clerks : \E x : Turns(d, x) /\ Shaped(x)
  BY <1>3, <1>13, Zenon DEF RecordSent, RecordDeposit, RecordVerdict, PutBack, EndTransfer
<1>14. ASSUME NEW c \in Clerks, NEW by, NEW bytes, RelayDeposit(c, by, bytes)
       PROVE  \E d \in Clerks : \E x : Turns(d, x) /\ Shaped(x)
  <2>1. Shaped([op |-> "parked", by |-> by, bytes |-> bytes, under |-> codes + 1])
    BY DEF Shaped, IsParked
  <2>2. QED
    BY <1>2, <1>14, <2>1, Zenon DEF RelayDeposit
<1>15. Restart => work' = [c \in Clerks |-> NoWork]
  BY Zenon DEF Restart
<1>16. QED
  BY <1>1, <1>5, <1>6, <1>7, <1>8, <1>9, <1>10, <1>11, <1>12, <1>13, <1>14, <1>15, Steps
     DEF BeginStep, LaterStep

\* The forms are kept by every step,
LEMMA ShapeStep ==
  ASSUME ShapeInv, ExchangeNext
  PROVE  ShapeInv'
<1>1. profile' = profile
  <2>1. ASSUME NEW c, LaterStep(c)
        PROVE  profile' = profile
    BY <2>1, Zenon DEF LaterStep, Judge, Reveal, Push, Undeliverable, RecordSent, RecordDeposit,
       CheckUnderKeys, RecordVerdict, PutBack, EndTransfer, keyVars
  <2>2. ASSUME NEW c, NEW u, BeginStep(c, u)
        PROVE  profile' = profile
    BY <2>2, Zenon DEF BeginStep, RelayDeposit, BeginTransfer, BeginSend, BeginReceive, BeginTheater,
       BeginVerify, BeginClaim, keyVars
  <2>3. ASSUME NEW u, OwnStep(u)
        PROVE  profile' = profile
    BY <2>3, Zenon DEF OwnStep, Login, Capture, DocSeal, InboxDelete, OutboxDelete, keyVars
  <2>4. ASSUME NEW bytes, OpenStep(bytes)
        PROVE  profile' = profile
    BY <2>4, Zenon DEF OpenStep, AttackDocument, keyVars
  <2>5. Restart => profile' = profile
    BY Zenon DEF Restart
  <2>6. QED
    BY <2>1, <2>2, <2>3, <2>4, <2>5, Steps
<1>2. CASE UNCHANGED work
  BY <1>1, <1>2 DEF ShapeInv
<1>3. CASE work' = [c \in Clerks |-> NoWork]
  BY <1>1, <1>3 DEF ShapeInv, Shaped
<1>4. QED
  BY <1>1, <1>2, <1>3, WorkTurns, ShapeKept

\* hold at the start,
LEMMA ShapeInit ==
  ASSUME ExchangeInit
  PROVE  ShapeInv
BY DEF ExchangeInit, ShapeInv, Shaped

\* and when nothing happens.
LEMMA ShapeStutter ==
  ASSUME ShapeInv, UNCHANGED exchangeVars
  PROVE  ShapeInv'
BY DEF ShapeInv, exchangeVars
-----------------------------------------------------------------------------
\* A handler's work is changed by its own steps.
LEMMA HandlerSteps ==
  ASSUME ShapeInv, ExchangeNext, ~Restart, NEW g \in Clerks
  PROVE  work'[g] = work[g] \/ LaterStep(g) \/ \E u \in Users : BeginStep(g, u)
<1>1. profile.clerks \subseteq Clerks
  BY ExchangeAssumption DEF ShapeInv
<1>2. ASSUME NEW c \in Clerks, g # c, NEW w, Turns(c, w)
      PROVE  work'[g] = work[g]
  BY <1>2, TurnsOne
<1>3. ASSUME NEW c \in Clerks, g # c, NEW u, BeginStep(c, u)
      PROVE  work'[g] = work[g]
  BY <1>2, <1>3, Zenon DEF BeginStep, RelayDeposit, BeginTransfer, BeginSend, BeginReceive,
     BeginTheater, BeginVerify, BeginClaim, Begin, Turns
<1>4. ASSUME NEW c \in Clerks, g # c, LaterStep(c)
      PROVE  work'[g] = work[g]
  <2>1. CASE Judge(c) \/ Reveal(c) \/ Push(c) \/ Undeliverable(c)
    <3>1. ASSUME NEW op, NEW can, NEW meta, After(c, op, can, meta)
          PROVE  work'[g] = work[g]
      BY <1>2, <1>4, <3>1, Zenon DEF After
    <3>2. CASE Judge(c)
      BY <3>1, <3>2, JudgeAfter, Zenon
    <3>3. CASE Reveal(c)
      BY <3>1, <3>3, RevealAfter, Zenon
    <3>4. CASE Push(c)
      BY <1>2, <1>4, <3>1, <3>4, PushSteps, Zenon
    <3>5. CASE Undeliverable(c)
      BY <3>1, <3>5, UndeliverableAfter, Zenon
    <3>6. QED
      BY <2>1, <3>2, <3>3, <3>4, <3>5
  <2>2. CASE CheckUnderKeys(c)
    <3>1. \E w : Turns(c, w)
      BY <2>2, Zenon DEF CheckUnderKeys, Done, Turns
    <3>2. QED
      BY <1>2, <1>4, <3>1, Zenon
  <2>3. CASE RecordSent(c) \/ RecordDeposit(c) \/ RecordVerdict(c) \/ PutBack(c) \/ EndTransfer(c)
    BY <1>2, <1>4, <2>3, Zenon DEF RecordSent, RecordDeposit, RecordVerdict, PutBack, EndTransfer,
       Done, Turns
  <2>4. QED
    BY <1>4, <2>1, <2>2, <2>3 DEF LaterStep
<1>5. ASSUME NEW u, OwnStep(u)
      PROVE  work'[g] = work[g]
  BY <1>5, Zenon DEF OwnStep, Login, Capture, DocSeal, InboxDelete, OutboxDelete
<1>6. ASSUME NEW bytes, OpenStep(bytes)
      PROVE  work'[g] = work[g]
  BY <1>6, Zenon DEF OpenStep, AttackDocument
<1>7. QED
  BY <1>1, <1>3, <1>4, <1>5, <1>6, Steps, Zenon

\* Who got what, and which codes were redeemed, is only added to.
LEMMA RecordsGrow ==
  ASSUME ShapeInv, ExchangeNext, ~Restart
  PROVE  /\ arrived \subseteq arrived'
         /\ redeemed' = redeemed \/ \E code : redeemed' = Append(redeemed, code)
<1>1. profile.clerks \subseteq Clerks
  BY ExchangeAssumption DEF ShapeInv
<1> DEFINE Grow == /\ arrived \subseteq arrived'
                   /\ redeemed' = redeemed \/ \E code : redeemed' = Append(redeemed, code)
<1>2. ASSUME NEW c \in Clerks, LaterStep(c)
      PROVE  Grow
  <2>1. CASE Push(c)
    <3>1. /\ arrived' = arrived \cup {[to |-> work[c].to, id |-> nextItem[work[c].to],
                                       bytes |-> work[c].bytes]}
          /\ redeemed' = IF work[c].via = "relay" THEN Append(redeemed, work[c].code) ELSE redeemed
      BY <2>1, PushSteps, Zenon
    <3>2. QED
      BY <3>1
  <2>2. CASE ~Push(c)
    BY <1>2, <2>2, Zenon DEF LaterStep, Judge, Reveal, Undeliverable, RecordSent, RecordDeposit,
       CheckUnderKeys, RecordVerdict, PutBack, EndTransfer, relayVars
  <2>3. QED
    BY <2>1, <2>2
<1>3. ASSUME NEW c, NEW u, BeginStep(c, u)
      PROVE  Grow
  BY <1>3, Zenon DEF BeginStep, RelayDeposit, BeginTransfer, BeginSend, BeginReceive, BeginTheater,
     BeginVerify, BeginClaim, relayVars
<1>4. ASSUME NEW u, OwnStep(u)
      PROVE  Grow
  BY <1>4, Zenon DEF OwnStep, Login, Capture, DocSeal, InboxDelete, OutboxDelete, relayVars
<1>5. ASSUME NEW bytes, OpenStep(bytes)
      PROVE  Grow
  BY <1>5, Zenon DEF OpenStep, AttackDocument, relayVars
<1> HIDE DEF Grow
<1>6. Grow
  BY <1>1, <1>2, <1>3, <1>4, <1>5, Steps
<1>7. QED
  BY <1>6 DEF Grow

\* What writes into the outboxes.
LEMMA OutboxSteps ==
  ASSUME ShapeInv, ExchangeNext, ~Restart
  PROVE  \/ UNCHANGED outbox
         \/ \E c \in Clerks : RecordSent(c) \/ RecordDeposit(c)
         \/ \E u \in Users : \E sent : OutboxDelete(u, sent)
<1>1. profile.clerks \subseteq Clerks
  BY ExchangeAssumption DEF ShapeInv
<1>2. ASSUME NEW c \in Clerks, LaterStep(c), ~RecordSent(c), ~RecordDeposit(c)
      PROVE  UNCHANGED outbox
  BY <1>2, PushSteps, Zenon DEF LaterStep, Judge, Reveal, Undeliverable, CheckUnderKeys,
     RecordVerdict, PutBack, EndTransfer
<1>3. ASSUME NEW c, NEW u, BeginStep(c, u)
      PROVE  UNCHANGED outbox
  BY <1>3, Zenon DEF BeginStep, RelayDeposit, BeginTransfer, BeginSend, BeginReceive, BeginTheater,
     BeginVerify, BeginClaim
<1>4. ASSUME NEW u \in Users, OwnStep(u)
      PROVE  UNCHANGED outbox \/ \E sent : OutboxDelete(u, sent)
  BY <1>4, Zenon DEF OwnStep, Login, Capture, DocSeal, InboxDelete
<1>5. ASSUME NEW bytes, OpenStep(bytes)
      PROVE  UNCHANGED outbox
  BY <1>5, Zenon DEF OpenStep, AttackDocument
<1>6. QED
  BY <1>1, <1>2, <1>3, <1>4, <1>5, Steps
-----------------------------------------------------------------------------
\* The container reached an inbox of the account.
Reached(filed, to, bytes) == \E a \in filed : a.to = to /\ a.bytes = bytes

FiledInv ==
  /\ ShapeInv
  /\ outbox = [u \in Users |-> outbox[u]]
  /\ \A u \in Users : \A sent \in outbox[u] :
       sent.delivered /\ sent.via # "relay" => Reached(arrived, sent.to, sent.bytes)
  /\ \A c \in Clerks : work[c].op = "filed" => Reached(arrived, work[c].to, work[c].bytes)

\* Only Push makes a delivery a filed one.
LEMMA FiledByPush ==
  ASSUME ShapeInv, ExchangeNext, NEW g \in Clerks, work'[g].op = "filed"
  PROVE  work'[g] = work[g] \/ Push(g)
<1>1. profile.clerks \subseteq Clerks
  BY ExchangeAssumption DEF ShapeInv
<1>2. ASSUME NEW c \in Clerks, NEW w, Turns(c, w), w.op # "filed"
      PROVE  work'[g] = work[g]
  BY <1>2, TurnsOne
<1>3. ASSUME NEW c \in Clerks, NEW op, NEW can, NEW meta, After(c, op, can, meta), op # "filed"
      PROVE  work'[g] = work[g]
  BY <1>2, <1>3 DEF After, Parcel
<1>4. ASSUME NEW c \in Clerks, Done(c)
      PROVE  work'[g] = work[g]
  BY <1>2, <1>4 DEF Done, Turns, NoWork
<1>5. ASSUME NEW c \in Clerks, NEW u, BeginStep(c, u)
      PROVE  work'[g] = work[g]
  <2>1. ASSUME NEW via, NEW by, NEW to, NEW bytes, NEW code, NEW bad,
               Begin(c, Delivery(via, by, to, bytes, code, bad))
        PROVE  work'[g] = work[g]
    BY <1>2, <2>1 DEF Begin, Turns, Delivery
  <2>2. ASSUME NEW k, Begin(c, [op |-> "transfer", key |-> k])
        PROVE  work'[g] = work[g]
    BY <1>2, <2>2 DEF Begin, Turns
  <2>3. ASSUME NEW id, NEW bytes, Begin(c, [op |-> "check", to |-> u, id |-> id, bytes |-> bytes])
        PROVE  work'[g] = work[g]
    BY <1>2, <2>3 DEF Begin, Turns
  <2>4. ASSUME NEW by, NEW bytes, NEW code,
               Begin(c, [op |-> "parked", by |-> by, bytes |-> bytes, under |-> code])
        PROVE  work'[g] = work[g]
    BY <1>2, <2>4 DEF Begin, Turns
  <2>5. QED
    BY <1>5, <2>1, <2>2, <2>3, <2>4, Zenon DEF BeginStep, RelayDeposit, BeginTransfer, BeginSend,
       BeginReceive, BeginTheater, BeginVerify, BeginClaim
<1>6. ASSUME NEW c \in Clerks, LaterStep(c), ~Push(c)
      PROVE  work'[g] = work[g]
  <2>1. CASE Judge(c)
    <3>1. (IF work[c].via \in {"local", "theater"} THEN "reveal" ELSE "push") # "filed"
      OBVIOUS
    <3>2. QED
      BY <1>3, <2>1, <3>1, JudgeAfter, Zenon
  <2>2. CASE Reveal(c)
    <3>1. (IF work[c].via \in {"receive", "laptop"} THEN "judge" ELSE "push") # "filed"
      OBVIOUS
    <3>2. QED
      BY <1>3, <2>2, <3>1, RevealAfter, Zenon
  <2>3. CASE Undeliverable(c)
    BY <1>3, <2>3, UndeliverableAfter
  <2>4. CASE CheckUnderKeys(c)
    <3>1. ASSUME NEW p, NEW meta,
                 Turns(c, [op |-> "verdict", to |-> work[c].to, id |-> work[c].id, passed |-> p,
                           meta |-> meta])
          PROVE  work'[g] = work[g]
      BY <1>2, <3>1
    <3>2. QED
      BY <1>4, <2>4, <3>1, Zenon DEF CheckUnderKeys, Turns
  <2>5. CASE RecordSent(c) \/ RecordDeposit(c) \/ RecordVerdict(c) \/ PutBack(c) \/ EndTransfer(c)
    BY <1>4, <2>5, Zenon DEF RecordSent, RecordDeposit, RecordVerdict, PutBack, EndTransfer
  <2>6. QED
    BY <1>6, <2>1, <2>2, <2>3, <2>4, <2>5 DEF LaterStep
<1>7. ASSUME NEW c \in Clerks, Push(c)
      PROVE  work'[g] = work[g] \/ Push(g)
  <2>1. Turns(c, NoWork) \/ After(c, "filed", work[c].can, work[c].meta)
    BY <1>7, PushSteps
  <2>2. g # c => work'[g] = work[g]
    BY <2>1, TurnsOne DEF After
  <2>3. QED
    BY <1>7, <2>2
<1>8. ASSUME NEW u, OwnStep(u)
      PROVE  work'[g] = work[g]
  BY <1>8, Zenon DEF OwnStep, Login, Capture, DocSeal, InboxDelete, OutboxDelete
<1>9. ASSUME NEW bytes, OpenStep(bytes)
      PROVE  work'[g] = work[g]
  BY <1>9, Zenon DEF OpenStep, AttackDocument
<1>10. ~Restart
  BY DEF Restart, NoWork
<1>11. QED
  BY <1>1, <1>5, <1>6, <1>7, <1>8, <1>9, <1>10, Steps

\* Every step keeps FiledInv.
LEMMA FiledStep ==
  ASSUME FiledInv, ExchangeNext
  PROVE  FiledInv'
<1>1. ShapeInv /\ ShapeInv' /\ profile.clerks \subseteq Clerks
  BY ShapeStep, ExchangeAssumption DEF FiledInv, ShapeInv
<1>2. CASE Restart
  BY <1>1, <1>2 DEF Restart, FiledInv, NoWork
<1>3. CASE ~Restart
  <2>1. arrived \subseteq arrived'
    BY <1>1, <1>3, RecordsGrow
  <2>2. \A to, bytes : Reached(arrived, to, bytes) => Reached(arrived', to, bytes)
    BY <2>1 DEF Reached
  <2>3. ASSUME NEW g \in Clerks, work'[g].op = "filed"
        PROVE  Reached(arrived', work'[g].to, work'[g].bytes)
    <3>1. CASE work'[g] = work[g]
      BY <2>2, <2>3, <3>1 DEF FiledInv
    <3>2. CASE Push(g)
      <4>1. PICK w : w = work[g]
        OBVIOUS
      <4>2. arrived' = arrived \cup {[to |-> w.to, id |-> nextItem[w.to], bytes |-> w.bytes]}
        BY <1>1, <3>2, <4>1, PushSteps
      <4>3. Turns(g, NoWork) \/ After(g, "filed", w.can, w.meta)
        BY <1>1, <3>2, <4>1, PushSteps
      <4>4. work'[g] = NoWork
              \/ work'[g] = Parcel("filed", w.via, w.by, w.to, w.bytes, w.code, w.bad, w.can, w.meta)
        BY <1>1, <4>1, <4>3, TurnsOne DEF After
      <4>5. work'[g].to = w.to /\ work'[g].bytes = w.bytes
        BY <2>3, <4>4 DEF NoWork, Parcel
      <4>6. PICK a : a = [to |-> w.to, id |-> nextItem[w.to], bytes |-> w.bytes]
        OBVIOUS
      <4>7. a.to = w.to /\ a.bytes = w.bytes
        BY <4>6
      <4>8. a \in arrived'
        BY <4>2, <4>6, Zenon
      <4>9. QED
        BY <4>5, <4>7, <4>8 DEF Reached
    <3>3. QED
      BY <1>1, <2>3, <3>1, <3>2, FiledByPush
  <2>4. ASSUME UNCHANGED outbox
        PROVE  FiledInv'
    BY <1>1, <2>2, <2>3, <2>4 DEF FiledInv
  <2>5. ASSUME NEW c \in Clerks, RecordSent(c)
        PROVE  FiledInv'
    <3>1. PICK w : w = work[c]
      OBVIOUS
    <3>2. PICK delivered \in Reply(c) :
            outbox' = [outbox EXCEPT ![w.by] = @ \cup {[bytes |-> w.bytes, to |-> w.to,
                                                       via |-> w.via, code |-> 0, delivered |-> delivered]}]
      BY <2>5, <3>1, Zenon DEF RecordSent
    <3>3. IsParcel(w) /\ w.op \in {"filed", "refused"}
      BY <1>1, <2>5, <3>1, OpOf DEF ShapeInv, RecordSent, Doing, Stages
    <3>4. delivered => Reached(arrived, w.to, w.bytes)
      BY <2>5, <3>1, <3>2, <3>3 DEF Reply, Doing, FiledInv
    <3>5. PICK sent : sent = [bytes |-> w.bytes, to |-> w.to, via |-> w.via, code |-> 0,
                              delivered |-> delivered]
      OBVIOUS
    <3>6. sent.delivered => Reached(arrived, sent.to, sent.bytes)
      BY <3>4, <3>5, Zenon
    <3>7. /\ outbox' = [u \in Users |-> outbox'[u]]
          /\ \A u \in Users : outbox'[u] \subseteq outbox[u] \cup {sent}
      BY <3>2, <3>3, <3>5 DEF FiledInv
    <3>8. QED
      BY <1>1, <2>2, <2>3, <3>6, <3>7 DEF FiledInv
  <2>6. ASSUME NEW u \in Users, NEW sent, OutboxDelete(u, sent)
        PROVE  FiledInv'
    <3>1. /\ outbox' = [x \in Users |-> outbox'[x]]
          /\ \A x \in Users : outbox'[x] \subseteq outbox[x]
      BY <2>6 DEF OutboxDelete, FiledInv
    <3>2. QED
      BY <1>1, <2>2, <2>3, <3>1 DEF FiledInv
  <2>7. ASSUME NEW c \in Clerks, RecordDeposit(c)
        PROVE  FiledInv'
    <3>1. PICK sent : sent = [bytes |-> work[c].bytes, to |-> Anyone, via |-> "relay",
                              code |-> work[c].under, delivered |-> TRUE]
      OBVIOUS
    <3>2. outbox' = [u \in Users |-> IF u # work[c].by THEN outbox[u] ELSE outbox[u] \cup {sent}]
      BY <2>7, <3>1, Zenon DEF RecordDeposit
    <3>3. /\ outbox' = [u \in Users |-> outbox'[u]] /\ sent.via = "relay"
          /\ \A u \in Users : outbox'[u] \subseteq outbox[u] \cup {sent}
      BY <3>1, <3>2
    <3>4. QED
      BY <1>1, <2>2, <2>3, <3>3 DEF FiledInv
  <2>8. QED
    BY <1>1, <1>3, <2>4, <2>5, <2>6, <2>7, OutboxSteps
<1>4. QED
  BY <1>2, <1>3

-----------------------------------------------------------------------------
\* The deposit that a handler has taken out of the mailbox, 0 for none.
RelayOf(w) == IF IsParcel(w) /\ w.via = "relay" THEN w.code ELSE 0

\* A claim goes on to file what it took: it is for an account that is here.
Claims(w, accounts, n) ==
  IsParcel(w) => IF w.via = "relay"
                 THEN w.op \in {"reveal", "push"} /\ w.to \in accounts /\ w.code \in 1..n
                 ELSE w.code = 0

InBox(box, code) == \E d \in box : d.code = code
InHands(hands, code) == \E c \in Clerks : RelayOf(hands[c]) = code
InInbox(done, code) == \E n \in 1..Len(done) : done[n] = code

OnePlace(box, hands, done, code) ==
  /\ InBox(box, code) \/ InHands(hands, code) \/ InInbox(done, code)
  /\ ~(InBox(box, code) /\ InHands(hands, code))
  /\ ~(InBox(box, code) /\ InInbox(done, code))
  /\ ~(InHands(hands, code) /\ InInbox(done, code))

RelayInv ==
  /\ ShapeInv
  /\ codes \in Nat /\ redeemed \in Seq(Nat)
  /\ \A c \in Clerks : Claims(work[c], here, codes)
  /\ \A d \in mailbox : d = [code |-> d.code, bytes |-> d.bytes] /\ d.code \in 1..codes
  /\ \A n \in 1..Len(redeemed) : redeemed[n] \in 1..codes
  /\ \A d, e \in mailbox : d.code = e.code => d = e
  /\ \A c, g \in Clerks : RelayOf(work[c]) \in 1..codes /\ RelayOf(work[c]) = RelayOf(work[g]) => c = g
  /\ \A m, n \in 1..Len(redeemed) : redeemed[m] = redeemed[n] => m = n
  /\ \A code \in 1..codes : OnePlace(mailbox, work, redeemed, code)

LEMMA RelayOfParcel ==
  ASSUME NEW op \in Stages, NEW via \in {"local", "laptop", "receive", "theater", "relay"},
         NEW by \in Users, NEW to \in Users, NEW bytes, NEW code, NEW bad \in BOOLEAN,
         NEW can \in BOOLEAN, NEW meta
  PROVE  RelayOf(Parcel(op, via, by, to, bytes, code, bad, can, meta)) = IF via = "relay" THEN code ELSE 0
<1>1. PICK w : w = Parcel(op, via, by, to, bytes, code, bad, can, meta)
  OBVIOUS
<1>2. IsParcel(w) /\ w.via = via /\ w.code = code
  BY <1>1, IsParcelOf
<1>3. QED
  BY <1>1, <1>2 DEF RelayOf

\* Every code in one place, once: the sets whose sizes are added.
LEMMA RelayInvSuffices ==
  ASSUME RelayInv
  PROVE  RelayConserved
<1>1. SUFFICES ASSUME NEW code \in 1..codes
               PROVE  Cardinality({ d \in mailbox : d.code = code })
                        + Cardinality({ c \in Clerks : "code" \in DOMAIN work[c] /\ work[c].code = code })
                        + Cardinality({ n \in DOMAIN redeemed : redeemed[n] = code }) = 1
  BY DEF RelayConserved
<1> DEFINE A == { d \in mailbox : d.code = code }
           B == { c \in Clerks : "code" \in DOMAIN work[c] /\ work[c].code = code }
           C == { n \in DOMAIN redeemed : redeemed[n] = code }
<1>2. code # 0
  OBVIOUS
<1>3. B = { c \in Clerks : RelayOf(work[c]) = code }
  <2>1. ASSUME NEW c \in Clerks
        PROVE  "code" \in DOMAIN work[c] /\ work[c].code = code <=> RelayOf(work[c]) = code
    <3>1. PICK w : w = work[c]
      OBVIOUS
    <3>2. Shaped(w) /\ Claims(w, here, codes)
      BY <3>1 DEF RelayInv, ShapeInv
    <3>3. CASE IsParcel(w)
      <4>1. "code" \in DOMAIN w
        BY <3>3 DEF IsParcel, Parcel
      <4>2. QED
        BY <1>2, <3>1, <3>2, <3>3, <4>1 DEF Claims, RelayOf
    <3>4. CASE ~IsParcel(w)
      <4>1. "code" \notin DOMAIN w
        BY <3>2, <3>4 DEF Shaped, NoWork, IsCheck, IsVerdict, IsTransfer, IsParked
      <4>2. QED
        BY <1>2, <3>1, <3>4, <4>1 DEF RelayOf
    <3>5. QED
      BY <3>3, <3>4
  <2>2. QED
    BY <2>1
<1>4. OnePlace(mailbox, work, redeemed, code) /\ DOMAIN redeemed = 1..Len(redeemed)
  BY DEF RelayInv
<1>5. /\ \A d, e \in A : d = e
      /\ \A c, g \in B : c = g
      /\ \A m, n \in C : m = n
  BY <1>3, <1>4 DEF RelayInv
<1>6. /\ A # {} <=> InBox(mailbox, code)
      /\ B # {} <=> InHands(work, code)
      /\ C # {} <=> InInbox(redeemed, code)
  BY <1>3, <1>4 DEF InBox, InHands, InInbox
<1> HIDE DEF A, B, C
<1>7. ASSUME NEW S, \A x, y \in S : x = y
      PROVE  Cardinality(S) = IF S = {} THEN 0 ELSE 1
  <2>1. CASE S = {}
    BY <2>1, FS_EmptySet
  <2>2. CASE S # {}
    <3>1. PICK x \in S : TRUE
      BY <2>2
    <3>2. S = {x}
      BY <1>7, <3>1
    <3>3. QED
      BY <2>2, <3>2, FS_Singleton
  <2>3. QED
    BY <2>1, <2>2
<1>8. /\ Cardinality(A) = IF A = {} THEN 0 ELSE 1
      /\ Cardinality(B) = IF B = {} THEN 0 ELSE 1
      /\ Cardinality(C) = IF C = {} THEN 0 ELSE 1
  BY <1>5, <1>7
<1>9. Cardinality(A) + Cardinality(B) + Cardinality(C) = 1
  BY <1>4, <1>6, <1>8 DEF OnePlace
<1>10. QED
  BY <1>9 DEF A, B, C

\* A step that leaves the deposits, and what each claim holds.
LEMMA RelayRests ==
  ASSUME RelayInv, ShapeInv', UNCHANGED relayVars, here \subseteq here',
         \A c \in Clerks : RelayOf(work'[c]) = RelayOf(work[c]) /\ Claims(work'[c], here', codes)
  PROVE  RelayInv'
<1>1. mailbox' = mailbox /\ codes' = codes /\ redeemed' = redeemed
  BY DEF relayVars
<1>2. \A code : InHands(work', code) <=> InHands(work, code)
  BY DEF InHands
<1>3. \A code \in 1..codes : OnePlace(mailbox, work', redeemed, code)
  BY <1>2 DEF RelayInv, OnePlace
<1>4. QED
  BY <1>1, <1>3 DEF RelayInv

\* One handler turns to something that holds the same deposit.
LEMMA RelayTurns ==
  ASSUME RelayInv, ShapeInv', UNCHANGED relayVars, here \subseteq here', NEW c \in Clerks, NEW w,
         Turns(c, w), RelayOf(w) = RelayOf(work[c]), Claims(w, here', codes)
  PROVE  RelayInv'
<1>1. ASSUME NEW g \in Clerks
      PROVE  RelayOf(work'[g]) = RelayOf(work[g]) /\ Claims(work'[g], here', codes)
  <2>1. work'[g] = IF g = c THEN w ELSE work[g]
    BY TurnsOne DEF RelayInv
  <2>2. Claims(work[g], here', codes)
    BY DEF RelayInv, Claims
  <2>3. QED
    BY <2>1, <2>2
<1>2. QED
  BY <1>1, RelayRests

\* What is no delivery holds no deposit.
LEMMA NotHeld ==
  ASSUME NEW w, ~IsParcel(w)
  PROVE  RelayOf(w) = 0 /\ \A accounts, n : Claims(w, accounts, n)
BY DEF RelayOf, Claims

LEMMA NoWorkHolds == ~IsParcel(NoWork)
BY DEF IsParcel, NoWork, Stages

\* relay_deposit: a fresh code, in the mailbox.
LEMMA RelayDepositStep ==
  ASSUME RelayInv, ShapeInv', NEW c \in Clerks, NEW by, NEW bytes, RelayDeposit(c, by, bytes)
  PROVE  RelayInv'
<1>1. PICK d : d = [code |-> codes + 1, bytes |-> bytes]
  OBVIOUS
<1>2. /\ codes' = codes + 1 /\ mailbox' = mailbox \cup {d} /\ redeemed' = redeemed
      /\ here' = here
  BY <1>1 DEF RelayDeposit, keyVars
<1>3. d.code = codes + 1 /\ d = [code |-> d.code, bytes |-> d.bytes]
  BY <1>1
<1>4. /\ codes \in Nat /\ codes' \in Nat /\ codes + 1 \notin 1..codes /\ 1..codes \subseteq 1..codes'
      /\ d.code \in 1..codes' /\ 1..codes' = 1..codes \cup {codes + 1}
  BY <1>2, <1>3 DEF RelayInv
<1>5. \A g \in Clerks : RelayOf(work'[g]) = RelayOf(work[g]) /\ Claims(work'[g], here, codes')
  <2>1. PICK w : w = [op |-> "parked", by |-> by, bytes |-> bytes, under |-> codes + 1]
    OBVIOUS
  <2>2. Turns(c, w) /\ work[c].op = "none"
    BY <2>1, Zenon DEF RelayDeposit, Begin, Doing, Turns
  <2>3. RelayOf(work[c]) = 0
    BY <2>2, OpOf, NoWorkHolds, NotHeld DEF RelayInv, ShapeInv
  <2>4. ~IsParcel(w)
    BY <2>1 DEF IsParcel, Stages
  <2>5. RelayOf(w) = 0 /\ Claims(w, here, codes')
    BY <2>4, NotHeld
  <2>6. \A g \in Clerks : work'[g] = IF g = c THEN w ELSE work[g]
    BY <2>2, TurnsOne DEF RelayInv
  <2>7. \A g \in Clerks : Claims(work[g], here, codes')
    BY <1>4 DEF RelayInv, Claims
  <2>8. QED
    BY <2>3, <2>5, <2>6, <2>7
<1>6. \A g \in Clerks : RelayOf(work[g]) \in 1..codes \/ RelayOf(work[g]) = 0
  BY DEF RelayInv, Claims, RelayOf
<1>7. OnePlace(mailbox', work', redeemed, codes + 1)
  <2>1. InBox(mailbox', codes + 1)
    BY <1>2, <1>3 DEF InBox
  <2>2. ~InHands(work', codes + 1)
    BY <1>4, <1>5, <1>6 DEF InHands
  <2>3. ~InInbox(redeemed, codes + 1)
    BY <1>4 DEF InInbox, RelayInv
  <2>4. QED
    BY <2>1, <2>2, <2>3 DEF OnePlace
<1>8. \A code \in 1..codes : OnePlace(mailbox', work', redeemed, code)
  <2>1. \A code \in 1..codes : InBox(mailbox', code) <=> InBox(mailbox, code)
    BY <1>2, <1>3, <1>4 DEF InBox
  <2>2. \A code : InHands(work', code) <=> InHands(work, code)
    BY <1>5 DEF InHands
  <2>3. QED
    BY <2>1, <2>2 DEF OnePlace, RelayInv
<1>9. \A g, h \in Clerks :
        RelayOf(work'[g]) \in 1..codes' /\ RelayOf(work'[g]) = RelayOf(work'[h]) => g = h
  BY <1>4, <1>5, <1>6 DEF RelayInv
<1>10. \A e, f \in mailbox' : e.code = f.code => e = f
  BY <1>2, <1>3, <1>4 DEF RelayInv
<1>11. \A e \in mailbox' : e = [code |-> e.code, bytes |-> e.bytes] /\ e.code \in 1..codes'
  BY <1>2, <1>3, <1>4 DEF RelayInv
<1>12. \A n \in 1..Len(redeemed) : redeemed[n] \in 1..codes'
  BY <1>4 DEF RelayInv
<1>13. QED
  BY <1>2, <1>4, <1>5, <1>7, <1>8, <1>9, <1>10, <1>11, <1>12 DEF RelayInv

\* relay_claim, its first section: from the mailbox into one pair of hands.
LEMMA BeginClaimStep ==
  ASSUME RelayInv, ShapeInv', NEW c \in Clerks, NEW u \in Users, NEW deposit \in mailbox,
         BeginClaim(c, u, deposit)
  PROVE  RelayInv'
<1>1. /\ mailbox' = mailbox \ {deposit} /\ codes' = codes /\ redeemed' = redeemed
      /\ here' = here /\ u \in here
  BY DEF BeginClaim, keyVars
<1>2. PICK w : w = Delivery("relay", u, u, deposit.bytes, deposit.code, FALSE)
  OBVIOUS
<1>3. Turns(c, w) /\ work[c].op = "none"
  BY <1>2, Zenon DEF BeginClaim, Begin, Doing, Turns
<1>4. IsParcel(w) /\ w.via = "relay" /\ w.code = deposit.code /\ w.op = "reveal" /\ w.to = u
  <2>1. Shaped(w)
    BY <1>2, DeliveryShaped, FALSE \in BOOLEAN, Zenon
  <2>2. w.via = "relay" /\ w.code = deposit.code /\ w.op = "reveal" /\ w.to = u
    BY <1>2 DEF Delivery
  <2>3. QED
    BY <2>1, <2>2, OpOf DEF Stages
<1>5. RelayOf(w) = deposit.code /\ Claims(w, here, codes) /\ deposit.code \in 1..codes
  BY <1>1, <1>4 DEF RelayOf, Claims, RelayInv
<1>6. \A g \in Clerks : work'[g] = IF g = c THEN w ELSE work[g]
  BY <1>3, TurnsOne DEF RelayInv
<1>7. RelayOf(work[c]) = 0
  BY <1>3, OpOf, NoWorkHolds, NotHeld DEF RelayInv, ShapeInv
<1>8. InBox(mailbox, deposit.code) /\ ~InHands(work, deposit.code) /\ ~InInbox(redeemed, deposit.code)
  BY <1>5 DEF InBox, RelayInv, OnePlace
<1>9. ~InBox(mailbox', deposit.code) /\ InHands(work', deposit.code)
  BY <1>1, <1>5, <1>6 DEF InBox, InHands, RelayInv
<1>10. \A code :
         code # deposit.code => /\ InBox(mailbox', code) <=> InBox(mailbox, code)
                                /\ code # 0 => (InHands(work', code) <=> InHands(work, code))
  <2>1. ASSUME NEW code, code # deposit.code
        PROVE  InBox(mailbox', code) <=> InBox(mailbox, code)
    BY <1>1, <2>1 DEF InBox
  <2>2. ASSUME NEW code, code # deposit.code, code # 0
        PROVE  InHands(work', code) <=> InHands(work, code)
    BY <1>5, <1>6, <1>7, <2>2 DEF InHands
  <2>3. QED
    BY <2>1, <2>2
<1>11. \A code \in 1..codes : OnePlace(mailbox', work', redeemed, code)
  <2>1. ASSUME NEW code \in 1..codes
        PROVE  OnePlace(mailbox', work', redeemed, code)
    <3>1. OnePlace(mailbox, work, redeemed, code) /\ code # 0
      BY DEF RelayInv
    <3>2. CASE code = deposit.code
      BY <1>8, <1>9, <3>2 DEF OnePlace
    <3>3. CASE code # deposit.code
      BY <1>10, <3>1, <3>3 DEF OnePlace
    <3>4. QED
      BY <3>2, <3>3
  <2>2. QED
    BY <2>1
<1>12. \A g, h \in Clerks :
         RelayOf(work'[g]) \in 1..codes /\ RelayOf(work'[g]) = RelayOf(work'[h]) => g = h
  BY <1>5, <1>6, <1>8 DEF InHands, RelayInv
<1>13. \A g \in Clerks : Claims(work'[g], here, codes)
  BY <1>5, <1>6 DEF RelayInv
<1>14. QED
  BY <1>1, <1>11, <1>12, <1>13 DEF RelayInv

\* A claim ends: what it held has gone to another place.
LEMMA ClaimEnds ==
  ASSUME RelayInv, NEW c \in Clerks, NEW w, w = work[c], IsParcel(w), w.via = "relay",
         Turns(c, NoWork)
  PROVE  /\ w.code \in 1..codes /\ w.to \in here
         /\ InHands(work, w.code) /\ ~InHands(work', w.code)
         /\ \A code \in 1..codes : code # w.code => (InHands(work', code) <=> InHands(work, code))
         /\ \A g \in Clerks : work'[g] = work[g] \/ work'[g] = NoWork
         /\ \A g, h \in Clerks :
              RelayOf(work'[g]) \in 1..codes /\ RelayOf(work'[g]) = RelayOf(work'[h]) => g = h
         /\ \A g \in Clerks : Claims(work'[g], here, codes)
<1>1. w.code \in 1..codes /\ w.to \in here /\ RelayOf(w) = w.code /\ w.code # 0
  BY DEF RelayInv, Claims, RelayOf
<1>2. \A g \in Clerks : work'[g] = IF g = c THEN NoWork ELSE work[g]
  BY TurnsOne DEF RelayInv
<1>3. RelayOf(NoWork) = 0 /\ Claims(NoWork, here, codes)
  BY NoWorkHolds, NotHeld
<1>4. InHands(work, w.code) /\ ~InHands(work', w.code)
  BY <1>1, <1>2, <1>3 DEF InHands, RelayInv
<1>5. \A code \in 1..codes : code # w.code => (InHands(work', code) <=> InHands(work, code))
  BY <1>1, <1>2, <1>3 DEF InHands
<1>6. \A g, h \in Clerks :
        RelayOf(work'[g]) \in 1..codes /\ RelayOf(work'[g]) = RelayOf(work'[h]) => g = h
  BY <1>2, <1>3 DEF RelayInv
<1>7. \A g \in Clerks : Claims(work'[g], here, codes)
  BY <1>2, <1>3 DEF RelayInv
<1>8. QED
  BY <1>1, <1>2, <1>4, <1>5, <1>6, <1>7

\* relay_claim for another user: back into the mailbox.
LEMMA PutBackStep ==
  ASSUME RelayInv, ShapeInv', NEW c \in Clerks, PutBack(c)
  PROVE  RelayInv'
<1>1. PICK w : w = work[c]
  OBVIOUS
<1>2. PICK d : d = [code |-> w.code, bytes |-> w.bytes]
  OBVIOUS
<1>3. /\ mailbox' = mailbox \cup {d} /\ codes' = codes /\ redeemed' = redeemed /\ here' = here
      /\ Turns(c, NoWork)
  BY <1>1, <1>2, Zenon DEF PutBack, Done, Turns, keyVars
<1>4. IsParcel(w) /\ w.via = "relay"
  BY <1>1, OpOf DEF PutBack, Doing, RelayInv, ShapeInv, Stages
<1>5. d.code = w.code /\ d = [code |-> d.code, bytes |-> d.bytes]
  BY <1>2
<1>6. /\ w.code \in 1..codes
      /\ InHands(work, w.code) /\ ~InHands(work', w.code)
      /\ \A code \in 1..codes : code # w.code => (InHands(work', code) <=> InHands(work, code))
      /\ \A g, h \in Clerks :
           RelayOf(work'[g]) \in 1..codes /\ RelayOf(work'[g]) = RelayOf(work'[h]) => g = h
      /\ \A g \in Clerks : Claims(work'[g], here, codes)
  BY <1>1, <1>3, <1>4, ClaimEnds
<1>7. ~InBox(mailbox, w.code) /\ ~InInbox(redeemed, w.code)
  BY <1>6 DEF RelayInv, OnePlace
<1>8. InBox(mailbox', w.code)
      /\ \A code : code # w.code => (InBox(mailbox', code) <=> InBox(mailbox, code))
  BY <1>3, <1>5 DEF InBox
<1>9. \A code \in 1..codes : OnePlace(mailbox', work', redeemed, code)
  BY <1>6, <1>7, <1>8 DEF OnePlace, RelayInv
<1>10. \A e, f \in mailbox' : e.code = f.code => e = f
  BY <1>3, <1>5, <1>7 DEF InBox, RelayInv
<1>11. \A e \in mailbox' : e = [code |-> e.code, bytes |-> e.bytes] /\ e.code \in 1..codes
  BY <1>3, <1>5, <1>6 DEF RelayInv
<1>12. QED
  BY <1>3, <1>6, <1>9, <1>10, <1>11 DEF RelayInv

\* relay_claim, its last section: from the hands into an inbox.
LEMMA RedeemStep ==
  ASSUME RelayInv, ShapeInv', NEW c \in Clerks, Push(c), work[c].via = "relay"
  PROVE  RelayInv'
<1>1. PICK w : w = work[c]
  OBVIOUS
<1>2. /\ mailbox' = mailbox /\ codes' = codes /\ redeemed' = Append(redeemed, w.code) /\ here' = here
      /\ Turns(c, NoWork) /\ IsParcel(w) /\ w.via = "relay"
  BY <1>1, PushSteps DEF RelayInv, keyVars
<1>3. /\ w.code \in 1..codes
      /\ InHands(work, w.code) /\ ~InHands(work', w.code)
      /\ \A code \in 1..codes : code # w.code => (InHands(work', code) <=> InHands(work, code))
      /\ \A g, h \in Clerks :
           RelayOf(work'[g]) \in 1..codes /\ RelayOf(work'[g]) = RelayOf(work'[h]) => g = h
      /\ \A g \in Clerks : Claims(work'[g], here, codes)
  BY <1>1, <1>2, ClaimEnds
<1>4. ~InBox(mailbox, w.code) /\ ~InInbox(redeemed, w.code)
  BY <1>3 DEF RelayInv, OnePlace
<1>5. /\ redeemed \in Seq(Nat) /\ Len(redeemed) \in Nat /\ w.code \in Nat
  BY <1>3 DEF RelayInv
<1>6. /\ redeemed' \in Seq(Nat) /\ Len(redeemed') = Len(redeemed) + 1
      /\ redeemed'[Len(redeemed) + 1] = w.code
      /\ \A n \in 1..Len(redeemed) : redeemed'[n] = redeemed[n]
      /\ 1..Len(redeemed') = 1..Len(redeemed) \cup {Len(redeemed) + 1}
  BY <1>2, <1>5
<1>7. InInbox(redeemed', w.code)
      /\ \A code : code # w.code => (InInbox(redeemed', code) <=> InInbox(redeemed, code))
  BY <1>6 DEF InInbox
<1>8. \A code \in 1..codes : OnePlace(mailbox, work', redeemed', code)
  BY <1>3, <1>4, <1>7 DEF OnePlace, RelayInv
<1>9. \A m, n \in 1..Len(redeemed') : redeemed'[m] = redeemed'[n] => m = n
  BY <1>4, <1>6 DEF InInbox, RelayInv
<1>10. \A n \in 1..Len(redeemed') : redeemed'[n] \in 1..codes
  BY <1>3, <1>6 DEF RelayInv
<1>11. QED
  BY <1>2, <1>3, <1>6, <1>8, <1>9, <1>10 DEF RelayInv

\* The other steps leave the deposits and what the claims hold.
LEMMA OtherStages ==
  ASSUME RelayInv, ShapeInv', NEW c \in Clerks, UNCHANGED relayVars, here' = here,
         NEW op \in Stages, NEW can \in BOOLEAN, NEW meta, NEW w, w = work[c], IsParcel(w),
         After(c, op, can, meta), w.via = "relay" => op \in {"reveal", "push"}
  PROVE  RelayInv'
<1>1. PICK p : p = Parcel(op, w.via, w.by, w.to, w.bytes, w.code, w.bad, can, meta)
  OBVIOUS
<1>2. /\ IsParcel(p) /\ p.op = op /\ p.via = w.via /\ p.to = w.to /\ p.code = w.code
  <2>1. /\ w.via \in {"local", "laptop", "receive", "theater", "relay"} /\ w.by \in Users
        /\ w.to \in Users /\ w.bad \in BOOLEAN
    BY DEF IsParcel
  <2>2. QED
    BY <1>1, <2>1, IsParcelOf
<1>3. Turns(c, p)
  BY <1>1, Zenon DEF After
<1>4. Claims(w, here, codes)
  BY DEF RelayInv
<1>5. RelayOf(p) = RelayOf(w) /\ Claims(p, here, codes)
  BY <1>2, <1>4 DEF RelayOf, Claims
<1>6. QED
  BY <1>3, <1>5, RelayTurns

\* A handler that holds no deposit ends.
LEMMA EndsOther ==
  ASSUME RelayInv, ShapeInv', NEW c \in Clerks, UNCHANGED relayVars, here' = here,
         RelayOf(work[c]) = 0, Turns(c, NoWork)
  PROVE  RelayInv'
BY RelayTurns, NoWorkHolds, NotHeld

\* The later sections of every handler,
LEMMA RelayLater ==
  ASSUME RelayInv, ShapeInv', NEW c \in Clerks, LaterStep(c)
  PROVE  RelayInv'
<1>0. ShapeInv
  BY DEF RelayInv
<1>1. PICK w : w = work[c]
  OBVIOUS
<1>2. Shaped(w) /\ Claims(w, here, codes)
  BY <1>1 DEF RelayInv, ShapeInv
<1>3. CASE Judge(c)
  <2>1. (IF w.via \in {"local", "theater"} THEN "reveal" ELSE "push") \in Stages
    BY DEF Stages
  <2>2. (VerifyAgainst(w.bytes, Known(w.to)) = "passed") \in BOOLEAN
    OBVIOUS
  <2>3. IsParcel(w) /\ w.op = "judge"
    BY <1>0, <1>1, <1>3, JudgeAfter
  <2>4. w.via # "relay"
    BY <1>2, <2>3 DEF Claims
  <2>5. UNCHANGED relayVars /\ here' = here
    BY <1>3, Zenon DEF Judge, keyVars
  <2>6. After(c, IF w.via \in {"local", "theater"} THEN "reveal" ELSE "push",
              VerifyAgainst(w.bytes, Known(w.to)) = "passed", w.meta)
    BY <1>0, <1>1, <1>3, JudgeAfter, Zenon
  <2>7. QED
    BY <1>1, <2>1, <2>2, <2>3, <2>4, <2>5, <2>6, OtherStages, Zenon
<1>4. CASE Reveal(c)
  <2>1. /\ (IF w.via \in {"receive", "laptop"} THEN "judge" ELSE "push") \in Stages
        /\ w.via = "relay" =>
             (IF w.via \in {"receive", "laptop"} THEN "judge" ELSE "push") \in {"reveal", "push"}
    BY DEF Stages
  <2>2. IsParcel(w) /\ w.can \in BOOLEAN
    BY <1>0, <1>1, <1>4, RevealAfter DEF IsParcel
  <2>3. UNCHANGED relayVars /\ here' = here
    BY <1>4, Zenon DEF Reveal, keyVars
  <2>4. After(c, IF w.via \in {"receive", "laptop"} THEN "judge" ELSE "push", w.can, Shown(w))
    BY <1>0, <1>1, <1>4, RevealAfter, Zenon
  <2>5. QED
    BY <1>1, <2>1, <2>2, <2>3, <2>4, OtherStages, Zenon
<1>5. CASE Push(c) /\ w.via # "relay"
  <2>1. /\ IsParcel(w) /\ redeemed' = redeemed /\ UNCHANGED <<mailbox, codes>> /\ here' = here
        /\ Turns(c, NoWork) \/ After(c, "filed", w.can, w.meta)
    BY <1>0, <1>1, <1>5, PushSteps DEF keyVars
  <2>2. UNCHANGED relayVars /\ RelayOf(w) = 0
    BY <1>5, <2>1 DEF relayVars, RelayOf
  <2>3. "filed" \in Stages /\ w.can \in BOOLEAN
    BY <2>1 DEF Stages, IsParcel
  <2>4. QED
    BY <1>1, <1>5, <2>1, <2>2, <2>3, OtherStages, EndsOther
<1>6. CASE Undeliverable(c)
  <2>1. /\ IsParcel(w) /\ w.op \in {"push", "reveal"}
        /\ w.op = "reveal" => w.via = "laptop"
        /\ After(c, "refused", w.can, w.meta)
    BY <1>0, <1>1, <1>6, UndeliverableAfter
  <2>2. w.via # "relay"
    <3>1. w.op = "push" => w.to \notin here
      BY <1>1, <1>6, <2>1 DEF Undeliverable, Doing
    <3>2. QED
      BY <1>2, <2>1, <3>1 DEF Claims
  <2>3. UNCHANGED relayVars /\ here' = here
    BY <1>6, Zenon DEF Undeliverable, keyVars
  <2>4. "refused" \in Stages /\ w.can \in BOOLEAN
    BY <2>1 DEF Stages, IsParcel
  <2>5. QED
    BY <1>1, <2>1, <2>2, <2>3, <2>4, OtherStages
<1>7. CASE RecordSent(c)
  <2>1. w.op \in {"filed", "refused"} /\ UNCHANGED relayVars /\ here' = here /\ Turns(c, NoWork)
    BY <1>1, <1>7, Zenon DEF RecordSent, Doing, Done, Turns, keyVars
  <2>2. RelayOf(w) = 0
    BY <1>2, <2>1 DEF RelayOf, Claims
  <2>3. QED
    BY <1>1, <2>1, <2>2, EndsOther
<1>8. CASE CheckUnderKeys(c)
  <2>1. RelayOf(w) = 0 /\ w.op = "check" /\ UNCHANGED relayVars /\ here' = here
    <3>1. w.op = "check" /\ UNCHANGED relayVars /\ here' = here
      BY <1>1, <1>8, Zenon DEF CheckUnderKeys, Doing, keyVars
    <3>2. QED
      BY <1>2, <3>1 DEF RelayOf, IsParcel, Stages
  <2>2. CASE Done(c)
    BY <1>1, <2>1, <2>2, EndsOther, Zenon DEF Done, Turns
  <2>3. ASSUME NEW p, NEW meta,
               Turns(c, [op |-> "verdict", to |-> w.to, id |-> w.id, passed |-> p, meta |-> meta])
        PROVE  RelayInv'
    <3>1. PICK v : v = [op |-> "verdict", to |-> w.to, id |-> w.id, passed |-> p, meta |-> meta]
      OBVIOUS
    <3>2. ~IsParcel(v)
      BY <3>1 DEF IsParcel, Stages
    <3>3. Turns(c, v)
      BY <2>3, <3>1, Zenon
    <3>4. QED
      BY <1>1, <2>1, <3>2, <3>3, NotHeld, RelayTurns
  <2>4. QED
    BY <1>1, <1>8, <2>2, <2>3, Zenon DEF CheckUnderKeys, Turns
<1>9. CASE RecordVerdict(c) \/ EndTransfer(c)
  <2>1. RelayOf(w) = 0
    BY <1>1, <1>9 DEF RecordVerdict, EndTransfer, Doing, RelayOf, IsParcel, Stages
  <2>2. UNCHANGED relayVars /\ here' = here /\ Turns(c, NoWork)
    BY <1>9, Zenon DEF RecordVerdict, EndTransfer, Done, Turns, keyVars
  <2>3. QED
    BY <1>1, <2>1, <2>2, EndsOther
<1>10. CASE RecordDeposit(c)
  <2>1. RelayOf(w) = 0
    BY <1>1, <1>10 DEF RecordDeposit, Doing, RelayOf, IsParcel, Stages
  <2>2. UNCHANGED relayVars /\ here' = here /\ Turns(c, NoWork)
    BY <1>10, Zenon DEF RecordDeposit, Done, Turns, keyVars
  <2>3. QED
    BY <1>1, <2>1, <2>2, EndsOther
<1>11. QED
  BY <1>1, <1>3, <1>4, <1>5, <1>6, <1>7, <1>8, <1>9, <1>10, RedeemStep, PutBackStep DEF LaterStep

\* the first ones,
LEMMA RelayBegin ==
  ASSUME RelayInv, ShapeInv', NEW c \in Clerks, NEW u \in Users, BeginStep(c, u)
  PROVE  RelayInv'
<1>0. ShapeInv
  BY DEF RelayInv
<1>1. ASSUME NEW w, Begin(c, w), Shaped(w), RelayOf(w) = 0, UNCHANGED relayVars, here \subseteq here',
             Claims(w, here', codes)
      PROVE  RelayInv'
  <2>1. Turns(c, w) /\ work[c].op = "none"
    BY <1>1, Zenon DEF Begin, Doing, Turns
  <2>2. RelayOf(work[c]) = 0
    BY <2>1, OpOf, NoWorkHolds, NotHeld DEF RelayInv, ShapeInv
  <2>3. QED
    BY <1>1, <2>1, <2>2, RelayTurns
<1>2. ASSUME NEW via \in {"local", "laptop", "receive", "theater"}, NEW by \in Users, NEW to \in Users,
             NEW bytes, NEW bad \in BOOLEAN, Begin(c, Delivery(via, by, to, bytes, 0, bad)),
             UNCHANGED relayVars, here \subseteq here'
      PROVE  RelayInv'
  <2>1. PICK w : w = Delivery(via, by, to, bytes, 0, bad)
    OBVIOUS
  <2>2. w.via # "relay" /\ w.code = 0
    BY <2>1 DEF Delivery
  <2>3. RelayOf(w) = 0 /\ Claims(w, here', codes)
    BY <2>2 DEF RelayOf, Claims
  <2>4. Shaped(w)
    BY <2>1, DeliveryShaped, Zenon
  <2>5. QED
    BY <1>1, <1>2, <2>1, <2>3, <2>4, Zenon
<1>3. ASSUME NEW w, Begin(c, w), Shaped(w), ~IsParcel(w), UNCHANGED relayVars, here' = here
      PROVE  RelayInv'
  BY <1>1, <1>3, NotHeld
<1>4. ASSUME NEW k \in Keys, BeginTransfer(c, u, k)
      PROVE  RelayInv'
  <2>1. PICK w : w = [op |-> "transfer", key |-> k]
    OBVIOUS
  <2>2. Shaped(w) /\ ~IsParcel(w)
    BY <2>1 DEF Shaped, IsTransfer, IsParcel, Stages
  <2>3. Begin(c, w) /\ UNCHANGED relayVars /\ here' = here
    BY <1>4, <2>1, Zenon DEF BeginTransfer
  <2>4. QED
    BY <1>3, <2>2, <2>3
<1>5. ASSUME NEW item \in inbox[u], BeginVerify(c, u, item)
      PROVE  RelayInv'
  <2>1. PICK w : w = [op |-> "check", to |-> u, id |-> item.id, bytes |-> item.bytes]
    OBVIOUS
  <2>2. Shaped(w) /\ ~IsParcel(w)
    BY <2>1 DEF Shaped, IsCheck, IsParcel, Stages
  <2>3. Begin(c, w) /\ UNCHANGED relayVars /\ here' = here
    BY <1>5, <2>1, Zenon DEF BeginVerify, keyVars
  <2>4. QED
    BY <1>3, <2>2, <2>3
<1>6. ASSUME NEW bytes \in held, NEW to \in Users, NEW via \in {"local", "laptop"},
             BeginSend(c, u, via, to, bytes)
      PROVE  RelayInv'
  <2>1. Begin(c, Delivery(via, u, to, bytes, 0, FALSE)) /\ UNCHANGED relayVars /\ here' = here
    BY <1>6, Zenon DEF BeginSend, keyVars
  <2>2. here \subseteq here' /\ FALSE \in BOOLEAN /\ via \in {"local", "laptop", "receive", "theater"}
    BY <2>1
  <2>3. QED
    BY <1>2, <2>1, <2>2, Zenon
<1>7. ASSUME NEW bytes \in held, BeginReceive(c, u, bytes)
      PROVE  RelayInv'
  <2>1. Begin(c, Delivery("receive", u, u, bytes, 0, FALSE)) /\ UNCHANGED relayVars /\ here' = here
    BY <1>7, Zenon DEF BeginReceive, keyVars
  <2>2. /\ here \subseteq here' /\ FALSE \in BOOLEAN
        /\ "receive" \in {"local", "laptop", "receive", "theater"}
    BY <2>1
  <2>3. QED
    BY <1>2, <2>1, <2>2, Zenon
<1>8. ASSUME NEW bytes \in held, NEW mode \in AttackModes, BeginTheater(c, u, bytes, mode)
      PROVE  RelayInv'
  <2>1. PICK bad \in BOOLEAN : bad = (VerifyAgainst(Attacked(bytes, mode), Known(u)) # "passed")
    OBVIOUS
  <2>2. /\ Begin(c, Delivery("theater", u, u, Attacked(bytes, mode), 0, bad)) /\ UNCHANGED relayVars
        /\ here' = here \cup {u}
    BY <1>8, <2>1, Zenon DEF BeginTheater
  <2>3. here \subseteq here' /\ "theater" \in {"local", "laptop", "receive", "theater"}
    BY <2>2
  <2>4. QED
    BY <1>2, <2>1, <2>2, <2>3, Zenon
<1>9. QED
  BY <1>4, <1>5, <1>6, <1>7, <1>8, BeginClaimStep, RelayDepositStep DEF BeginStep

\* and so every step keeps RelayInv.
LEMMA RelayStep ==
  ASSUME RelayInv, ExchangeNext
  PROVE  RelayInv'
<1>1. ShapeInv /\ ShapeInv' /\ profile.clerks \subseteq Clerks
  BY ShapeStep, ExchangeAssumption DEF RelayInv, ShapeInv
<1>2. ASSUME UNCHANGED <<relayVars, work>>, here \subseteq here'
      PROVE  RelayInv'
  <2>1. \A c \in Clerks : Claims(work[c], here', codes)
    BY <1>2 DEF RelayInv, Claims
  <2>2. QED
    BY <1>1, <1>2, <2>1, RelayRests
<1>3. ASSUME NEW u \in Users, OwnStep(u)
      PROVE  RelayInv'
  <2>1. UNCHANGED <<relayVars, work>>
    BY <1>3, Zenon DEF OwnStep, Login, Capture, DocSeal, InboxDelete, OutboxDelete
  <2>2. here' = here \/ here' = here \cup {u}
    BY <1>3, Zenon DEF OwnStep, Login, Capture, DocSeal, InboxDelete, OutboxDelete, keyVars
  <2>3. QED
    BY <1>2, <2>1, <2>2
<1>4. ASSUME NEW bytes, OpenStep(bytes)
      PROVE  RelayInv'
  BY <1>2, <1>4 DEF OpenStep, AttackDocument
<1>5. CASE Restart
  <2>1. /\ codes' = 0 /\ redeemed' = <<>> /\ mailbox' = {}
        /\ \A c \in Clerks : work'[c] = NoWork
    BY <1>5 DEF Restart
  <2>2. \A c \in Clerks : RelayOf(work'[c]) = 0 /\ Claims(work'[c], here', codes')
    BY <2>1, NoWorkHolds, NotHeld
  <2>3. QED
    BY <1>1, <2>1, <2>2 DEF RelayInv
<1>6. QED
  BY <1>1, <1>3, <1>4, <1>5, RelayBegin, RelayLater, Steps

\* It holds at the start,
LEMMA RelayInit ==
  ASSUME ExchangeInit
  PROVE  RelayInv
<1>1. codes = 0 /\ redeemed = <<>> /\ mailbox = {} /\ work = [c \in Clerks |-> NoWork]
  BY Zenon DEF ExchangeInit
<1>2. \A c \in Clerks : RelayOf(work[c]) = 0 /\ Claims(work[c], here, codes)
  BY <1>1, NoWorkHolds, NotHeld
<1>3. QED
  BY <1>1, <1>2, ShapeInit DEF RelayInv

\* and when nothing happens.
LEMMA RelayStutter ==
  ASSUME RelayInv, UNCHANGED exchangeVars
  PROVE  RelayInv'
<1>1. ShapeInv' /\ UNCHANGED relayVars /\ here' = here /\ work' = work
  BY ShapeStutter, Zenon DEF RelayInv, exchangeVars, relayVars
<1>2. \A c \in Clerks : RelayOf(work'[c]) = RelayOf(work[c]) /\ Claims(work'[c], here', codes)
  BY <1>1 DEF RelayInv
<1>3. QED
  BY <1>1, <1>2, RelayRests

\* A deposit is in the mailbox, in the hands of one claim, or in one inbox, however
\* many handlers claim, put back and file at once.
THEOREM RelayAlwaysConserved == ExchangeSpec => []RelayConserved
<1>1. RelayInv /\ [ExchangeNext]_exchangeVars => RelayInv'
  BY RelayStep, RelayStutter
<1>2. RelayInv => RelayConserved
  BY RelayInvSuffices
<1>3. QED
  BY <1>1, <1>2, RelayInit, PTL DEF ExchangeSpec
-----------------------------------------------------------------------------
\* Where the container of a deposit is: in the mailbox, with a claim, or filed.
MailHas(box, code, bytes) == \E d \in box : d.code = code /\ d.bytes = bytes
HandHas(hands, code, bytes) ==
  \E c \in Clerks : /\ IsParcel(hands[c]) /\ hands[c].via = "relay"
                    /\ hands[c].code = code /\ hands[c].bytes = bytes
FiledHas(done, got, code, bytes) == InInbox(done, code) /\ \E a \in got : a.bytes = bytes

Findable(box, hands, done, got, code, bytes) ==
  MailHas(box, code, bytes) \/ HandHas(hands, code, bytes) \/ FiledHas(done, got, code, bytes)

\* What an outbox says of a deposit, and what a handler is about to write there.
DepositInv ==
  /\ RelayInv
  /\ outbox = [u \in Users |-> outbox[u]]
  /\ \A u \in Users : \A sent \in outbox[u] :
       sent.via = "relay" => Findable(mailbox, work, redeemed, arrived, sent.code, sent.bytes)
  /\ \A c \in Clerks :
       work[c].op = "parked" =>
         Findable(mailbox, work, redeemed, arrived, work[c].under, work[c].bytes)

\* What a claim holds is put back, or filed, or still held.
LEMMA HandHasStays ==
  ASSUME RelayInv, ExchangeNext, ~Restart, NEW g \in Clerks, NEW w, w = work[g],
         IsParcel(w), w.via = "relay"
  PROVE  Findable(mailbox', work', redeemed', arrived', w.code, w.bytes)
<1>1. ShapeInv /\ w.op \in {"reveal", "push"} /\ w.to \in here
  BY DEF RelayInv, Claims
<1>2. CASE work'[g] = w
  BY <1>2 DEF HandHas, Findable
<1>3. ASSUME NEW u, BeginStep(g, u)
      PROVE  FALSE
  BY <1>1, <1>3, Zenon DEF BeginStep, RelayDeposit, BeginTransfer, BeginSend, BeginReceive,
     BeginTheater, BeginVerify, BeginClaim, Begin, Doing
<1>4. CASE Reveal(g)
  <2>1. After(g, "push", w.can, Shown(w))
    BY <1>1, <1>4, RevealAfter
  <2>2. PICK meta : meta = Shown(w)
    OBVIOUS
  <2>3. PICK p : p = Parcel("push", w.via, w.by, w.to, w.bytes, w.code, w.bad, w.can, meta)
    OBVIOUS
  <2>4. "push" \in Stages /\ w.by \in Users /\ w.to \in Users /\ w.bad \in BOOLEAN /\ w.can \in BOOLEAN
        /\ w.via \in {"local", "laptop", "receive", "theater", "relay"}
    BY DEF IsParcel, Stages
  <2>5. IsParcel(p) /\ p.via = "relay" /\ p.code = w.code /\ p.bytes = w.bytes
    BY <2>3, <2>4, IsParcelOf
  <2>6. Turns(g, p)
    BY <2>1, <2>2, <2>3, Zenon DEF After
  <2>7. work'[g] = p
    BY <1>1, <2>6, TurnsOne
  <2>8. QED
    BY <2>5, <2>7 DEF HandHas, Findable
<1>5. CASE Push(g)
  <2>1. PICK a : a = [to |-> w.to, id |-> nextItem[w.to], bytes |-> w.bytes]
    OBVIOUS
  <2>2. a \in arrived' /\ redeemed' = Append(redeemed, w.code)
    BY <1>1, <1>5, <2>1, PushSteps
  <2>3. a.bytes = w.bytes
    BY <2>1
  <2>4. InInbox(redeemed', w.code)
    <3>1. redeemed \in Seq(Nat) /\ w.code \in Nat
      BY DEF RelayInv, Claims
    <3>2. Len(redeemed) + 1 \in 1..Len(redeemed') /\ redeemed'[Len(redeemed) + 1] = w.code
      BY <2>2, <3>1
    <3>3. QED
      BY <3>2 DEF InInbox
  <2>5. QED
    BY <2>2, <2>3, <2>4 DEF FiledHas, Findable
<1>6. CASE PutBack(g)
  <2>1. PICK d : d = [code |-> w.code, bytes |-> w.bytes]
    OBVIOUS
  <2>2. d \in mailbox'
    BY <1>6, <2>1, Zenon DEF PutBack
  <2>3. d.code = w.code /\ d.bytes = w.bytes
    BY <2>1
  <2>4. QED
    BY <2>2, <2>3 DEF MailHas, Findable
<1>7. CASE LaterStep(g) /\ ~Reveal(g) /\ ~Push(g) /\ ~PutBack(g)
  <2>1. ~Undeliverable(g)
    BY <1>1 DEF Undeliverable, Doing
  <2>2. QED
    BY <1>1, <1>7, <2>1 DEF LaterStep, Judge, RecordSent, RecordDeposit, CheckUnderKeys, RecordVerdict,
       EndTransfer, Doing
<1>8. QED
  BY <1>1, <1>2, <1>3, <1>4, <1>5, <1>6, <1>7, HandlerSteps

\* A deposit is not lost sight of.
LEMMA FindableStays ==
  ASSUME RelayInv, ExchangeNext, ~Restart, NEW code, NEW bytes,
         Findable(mailbox, work, redeemed, arrived, code, bytes)
  PROVE  Findable(mailbox', work', redeemed', arrived', code, bytes)
<1>1. ShapeInv /\ profile.clerks \subseteq Clerks /\ redeemed \in Seq(Nat)
  BY ExchangeAssumption DEF RelayInv, ShapeInv
<1>2. ASSUME NEW d \in mailbox
      PROVE  d \in mailbox' \/ \E c \in Clerks, u \in Users : BeginClaim(c, u, d)
  <2>1. ASSUME NEW c \in Clerks, LaterStep(c)
        PROVE  d \in mailbox'
    <3>1. CASE PutBack(c)
      BY <3>1 DEF PutBack
    <3>2. CASE ~PutBack(c)
      BY <2>1, <3>2, Zenon DEF LaterStep, Judge, Reveal, Push, Undeliverable, RecordSent,
         RecordDeposit, CheckUnderKeys, RecordVerdict, EndTransfer, relayVars
    <3>3. QED
      BY <3>1, <3>2
  <2>2. ASSUME NEW c \in Clerks, NEW u \in Users, BeginStep(c, u)
        PROVE  d \in mailbox' \/ BeginClaim(c, u, d)
    <3>1. ASSUME NEW by, NEW b, RelayDeposit(c, by, b)
          PROVE  d \in mailbox'
      BY <3>1 DEF RelayDeposit
    <3>2. ASSUME NEW deposit \in mailbox, BeginClaim(c, u, deposit)
          PROVE  d \in mailbox' \/ BeginClaim(c, u, d)
      <4>1. mailbox' = mailbox \ {deposit}
        BY <3>2, Zenon DEF BeginClaim
      <4>2. d = deposit => BeginClaim(c, u, d)
        BY <3>2, Zenon
      <4>3. QED
        BY <4>1, <4>2
    <3>3. QED
      BY <2>2, <3>1, <3>2, Zenon DEF BeginStep, BeginTransfer, BeginSend, BeginReceive, BeginTheater,
         BeginVerify, relayVars
  <2>3. ASSUME NEW u, OwnStep(u)
        PROVE  d \in mailbox'
    BY <2>3, Zenon DEF OwnStep, Login, Capture, DocSeal, InboxDelete, OutboxDelete, relayVars
  <2>4. ASSUME NEW b, OpenStep(b)
        PROVE  d \in mailbox'
    BY <2>4, Zenon DEF OpenStep, AttackDocument, relayVars
  <2>5. QED
    BY <1>1, <2>1, <2>2, <2>3, <2>4, Steps
<1>3. CASE MailHas(mailbox, code, bytes)
  <2>1. PICK d \in mailbox : d.code = code /\ d.bytes = bytes
    BY <1>3 DEF MailHas
  <2>2. CASE d \in mailbox'
    BY <2>1, <2>2 DEF MailHas, Findable
  <2>3. ASSUME NEW c \in Clerks, NEW u \in Users, BeginClaim(c, u, d)
        PROVE  HandHas(work', code, bytes)
    <3>1. PICK w : w = Delivery("relay", u, u, d.bytes, d.code, FALSE)
      OBVIOUS
    <3>2. Shaped(w)
      BY <3>1, DeliveryShaped, FALSE \in BOOLEAN, Zenon
    <3>3. w.via = "relay" /\ w.code = code /\ w.bytes = bytes /\ w.op = "reveal"
      BY <2>1, <3>1 DEF Delivery
    <3>4. IsParcel(w)
      BY <3>2, <3>3, OpOf DEF Stages
    <3>5. Turns(c, w)
      BY <2>3, <3>1, Zenon DEF BeginClaim, Begin, Turns
    <3>6. work'[c] = w
      BY <1>1, <3>5, TurnsOne
    <3>7. QED
      BY <3>3, <3>4, <3>6 DEF HandHas
  <2>4. QED
    BY <1>2, <2>2, <2>3 DEF Findable
<1>4. CASE HandHas(work, code, bytes)
  <2>1. PICK g \in Clerks : /\ IsParcel(work[g]) /\ work[g].via = "relay"
                            /\ work[g].code = code /\ work[g].bytes = bytes
    BY <1>4 DEF HandHas
  <2>2. QED
    BY <2>1, HandHasStays
<1>5. CASE FiledHas(redeemed, arrived, code, bytes)
  <2>1. arrived \subseteq arrived'
    BY <1>1, RecordsGrow
  <2>2. InInbox(redeemed', code)
    <3>1. CASE redeemed' = redeemed
      BY <1>5, <3>1 DEF FiledHas
    <3>2. ASSUME NEW x, redeemed' = Append(redeemed, x)
          PROVE  InInbox(redeemed', code)
      <4>1. PICK n \in 1..Len(redeemed) : redeemed[n] = code
        BY <1>5 DEF FiledHas, InInbox
      <4>2. n \in 1..Len(redeemed') /\ redeemed'[n] = code
        BY <1>1, <3>2, <4>1
      <4>3. QED
        BY <4>2 DEF InInbox
    <3>3. QED
      BY <1>1, <3>1, <3>2, RecordsGrow
  <2>3. QED
    BY <1>5, <2>1, <2>2 DEF FiledHas, Findable
<1>6. QED
  BY <1>3, <1>4, <1>5 DEF Findable

\* Every step keeps DepositInv.
LEMMA DepositStep ==
  ASSUME DepositInv, ExchangeNext
  PROVE  DepositInv'
<1>1. RelayInv /\ RelayInv' /\ ShapeInv
  BY RelayStep DEF DepositInv, RelayInv
<1>2. CASE Restart
  BY <1>1, <1>2 DEF Restart, DepositInv, NoWork
<1>3. CASE ~Restart
  <2> DEFINE Stays(code, bytes) == Findable(mailbox', work', redeemed', arrived', code, bytes)
  <2>1. \A code, bytes :
          Findable(mailbox, work, redeemed, arrived, code, bytes) => Stays(code, bytes)
    BY <1>1, <1>3, FindableStays
  <2> HIDE DEF Stays
  <2>2. ASSUME NEW g \in Clerks, work'[g].op = "parked"
        PROVE  Stays(work'[g].under, work'[g].bytes)
    <3>1. CASE work'[g] = work[g]
      BY <2>1, <2>2, <3>1 DEF DepositInv
    <3>2. ASSUME NEW by, NEW bytes, RelayDeposit(g, by, bytes)
          PROVE  Stays(work'[g].under, work'[g].bytes)
      <4>1. PICK w : w = [op |-> "parked", by |-> by, bytes |-> bytes, under |-> codes + 1]
        OBVIOUS
      <4>2. PICK d : d = [code |-> codes + 1, bytes |-> bytes]
        OBVIOUS
      <4>3. Turns(g, w) /\ d \in mailbox'
        BY <3>2, <4>1, <4>2, Zenon DEF RelayDeposit, Begin, Turns
      <4>4. work'[g] = w
        BY <1>1, <4>3, TurnsOne
      <4>5. d.code = work'[g].under /\ d.bytes = work'[g].bytes
        BY <4>1, <4>2, <4>4
      <4>6. QED
        BY <4>3, <4>5 DEF Stays, Findable, MailHas
    <3>3. ASSUME NEW w, Turns(g, w), w.op # "parked"
          PROVE  FALSE
      BY <1>1, <2>2, <3>3, TurnsOne
    <3>4. ASSUME NEW op, NEW can, NEW meta, After(g, op, can, meta), op # "parked"
          PROVE  FALSE
      BY <3>3, <3>4 DEF After, Parcel
    <3>5. ASSUME Done(g)
          PROVE  FALSE
      <4>1. Turns(g, NoWork)
        BY <3>5 DEF Done, Turns
      <4>2. NoWork.op # "parked"
        BY DEF NoWork
      <4>3. QED
        BY <3>3, <4>1, <4>2
    <3>6. ASSUME LaterStep(g)
          PROVE  FALSE
      <4>1. CASE Judge(g)
        <5>1. (IF work[g].via \in {"local", "theater"} THEN "reveal" ELSE "push") # "parked"
          OBVIOUS
        <5>2. QED
          BY <1>1, <3>4, <4>1, <5>1, JudgeAfter, Zenon
      <4>2. CASE Reveal(g)
        <5>1. (IF work[g].via \in {"receive", "laptop"} THEN "judge" ELSE "push") # "parked"
          OBVIOUS
        <5>2. QED
          BY <1>1, <3>4, <4>2, <5>1, RevealAfter, Zenon
      <4>3. CASE Push(g)
        <5>1. Turns(g, NoWork) \/ After(g, "filed", work[g].can, work[g].meta)
          BY <1>1, <4>3, PushSteps
        <5>2. NoWork.op # "parked"
          BY DEF NoWork
        <5>3. QED
          BY <3>3, <3>4, <5>1, <5>2
      <4>4. CASE Undeliverable(g)
        BY <1>1, <3>4, <4>4, UndeliverableAfter
      <4>5. CASE CheckUnderKeys(g)
        <5>1. ASSUME NEW p, NEW meta,
                     Turns(g, [op |-> "verdict", to |-> work[g].to, id |-> work[g].id, passed |-> p,
                               meta |-> meta])
              PROVE  FALSE
          BY <3>3, <5>1
        <5>2. QED
          BY <3>5, <4>5, <5>1, Zenon DEF CheckUnderKeys, Turns
      <4>6. CASE RecordSent(g) \/ RecordDeposit(g) \/ RecordVerdict(g) \/ PutBack(g) \/ EndTransfer(g)
        BY <3>5, <4>6, Zenon DEF RecordSent, RecordDeposit, RecordVerdict, PutBack, EndTransfer
      <4>7. QED
        BY <3>6, <4>1, <4>2, <4>3, <4>4, <4>5, <4>6 DEF LaterStep
    <3>7. ASSUME NEW u \in Users, BeginStep(g, u)
          PROVE  \E by, bytes : RelayDeposit(g, by, bytes)
      <4>1. ASSUME NEW via, NEW by, NEW to, NEW bytes, NEW code, NEW bad,
                   Begin(g, Delivery(via, by, to, bytes, code, bad))
            PROVE  FALSE
        <5>1. PICK w : w = Delivery(via, by, to, bytes, code, bad)
          OBVIOUS
        <5>2. w.op # "parked"
          BY <5>1 DEF Delivery
        <5>3. Turns(g, w)
          BY <4>1, <5>1, Zenon DEF Begin, Turns
        <5>4. QED
          BY <3>3, <5>2, <5>3
      <4>2. ASSUME NEW k, Begin(g, [op |-> "transfer", key |-> k])
            PROVE  FALSE
        <5>1. PICK w : w = [op |-> "transfer", key |-> k]
          OBVIOUS
        <5>2. w.op # "parked"
          BY <5>1
        <5>3. Turns(g, w)
          BY <4>2, <5>1, Zenon DEF Begin, Turns
        <5>4. QED
          BY <3>3, <5>2, <5>3
      <4>3. ASSUME NEW id, NEW bytes, Begin(g, [op |-> "check", to |-> u, id |-> id, bytes |-> bytes])
            PROVE  FALSE
        <5>1. PICK w : w = [op |-> "check", to |-> u, id |-> id, bytes |-> bytes]
          OBVIOUS
        <5>2. w.op # "parked"
          BY <5>1
        <5>3. Turns(g, w)
          BY <4>3, <5>1, Zenon DEF Begin, Turns
        <5>4. QED
          BY <3>3, <5>2, <5>3
      <4>4. QED
        BY <3>7, <4>1, <4>2, <4>3, Zenon DEF BeginStep, BeginTransfer, BeginSend, BeginReceive,
           BeginTheater, BeginVerify, BeginClaim
    <3>8. QED
      BY <1>1, <1>3, <3>1, <3>2, <3>6, <3>7, HandlerSteps
  <2>3. ASSUME outbox' = [u \in Users |-> outbox'[u]], NEW sent,
               sent.via = "relay" => Stays(sent.code, sent.bytes),
               \A u \in Users : outbox'[u] \subseteq outbox[u] \cup {sent}
        PROVE  DepositInv'
    BY <1>1, <2>1, <2>2, <2>3 DEF DepositInv, Stays
  <2>4. CASE UNCHANGED outbox
    BY <1>1, <2>1, <2>2, <2>4 DEF DepositInv, Stays
  <2>5. ASSUME NEW c \in Clerks, RecordSent(c)
        PROVE  DepositInv'
    <3>1. PICK w : w = work[c]
      OBVIOUS
    <3>2. PICK delivered \in Reply(c) :
            outbox' = [outbox EXCEPT ![w.by] = @ \cup {[bytes |-> w.bytes, to |-> w.to,
                                                       via |-> w.via, code |-> 0, delivered |-> delivered]}]
      BY <2>5, <3>1, Zenon DEF RecordSent
    <3>3. IsParcel(w) /\ w.op \in {"filed", "refused"}
      BY <1>1, <2>5, <3>1, OpOf DEF ShapeInv, RecordSent, Doing, Stages
    <3>4. w.via # "relay"
      BY <1>1, <3>1, <3>3 DEF RelayInv, Claims
    <3>5. PICK sent : sent = [bytes |-> w.bytes, to |-> w.to, via |-> w.via, code |-> 0,
                              delivered |-> delivered]
      OBVIOUS
    <3>6. /\ outbox' = [u \in Users |-> outbox'[u]] /\ sent.via # "relay"
          /\ \A u \in Users : outbox'[u] \subseteq outbox[u] \cup {sent}
      BY <3>2, <3>3, <3>4, <3>5 DEF DepositInv
    <3>7. QED
      BY <2>3, <3>6
  <2>6. ASSUME NEW c \in Clerks, RecordDeposit(c)
        PROVE  DepositInv'
    <3>1. PICK sent : sent = [bytes |-> work[c].bytes, to |-> Anyone, via |-> "relay",
                              code |-> work[c].under, delivered |-> TRUE]
      OBVIOUS
    <3>2. outbox' = [u \in Users |-> IF u # work[c].by THEN outbox[u] ELSE outbox[u] \cup {sent}]
      BY <2>6, <3>1, Zenon DEF RecordDeposit
    <3>3. work[c].op = "parked"
      BY <2>6 DEF RecordDeposit, Doing
    <3>4. Stays(work[c].under, work[c].bytes)
      BY <2>1, <3>3 DEF DepositInv
    <3>5. /\ outbox' = [u \in Users |-> outbox'[u]] /\ Stays(sent.code, sent.bytes)
          /\ \A u \in Users : outbox'[u] \subseteq outbox[u] \cup {sent}
      BY <3>1, <3>2, <3>4
    <3>6. QED
      BY <2>3, <3>5
  <2>7. ASSUME NEW u \in Users, NEW sent, OutboxDelete(u, sent)
        PROVE  DepositInv'
    <3>1. /\ outbox' = [x \in Users |-> outbox'[x]]
          /\ \A x \in Users : outbox'[x] \subseteq outbox[x]
      BY <2>7 DEF OutboxDelete, DepositInv
    <3>2. QED
      BY <1>1, <2>1, <2>2, <3>1 DEF DepositInv, Stays
  <2>8. QED
    BY <1>1, <1>3, <2>4, <2>5, <2>6, <2>7, OutboxSteps
<1>4. QED
  BY <1>2, <1>3

\* A record of the outbox that says "delivered" is true of what peer_send sent, though it
\* is written in another section than the one that filed the item and a reply may be lost
\* or late; what relay_deposit records is in the mailbox under that code, with a claim, or filed.
THEOREM OutboxAlwaysSpeaksTrue == ExchangeSpec => []OutboxSpeaksTrue
<1> DEFINE Inv == FiledInv /\ DepositInv
<1>1. ExchangeInit => Inv
  BY ShapeInit, RelayInit DEF ExchangeInit, FiledInv, DepositInv, NoWork
<1>2. Inv /\ UNCHANGED exchangeVars => Inv'
  <2>1. FiledInv /\ UNCHANGED exchangeVars => FiledInv'
    BY ShapeStutter DEF FiledInv, exchangeVars, Reached
  <2>2. DepositInv /\ UNCHANGED exchangeVars => DepositInv'
    BY RelayStutter DEF DepositInv, exchangeVars
  <2>3. QED
    BY <2>1, <2>2
<1>3. Inv /\ [ExchangeNext]_exchangeVars => Inv'
  BY <1>2, FiledStep, DepositStep
<1>4. Inv => OutboxSpeaksTrue
  <2>1. ASSUME Inv, NEW u \in Users, NEW sent \in outbox[u], sent.delivered, sent.via # "relay"
        PROVE  \E a \in arrived : a.to = sent.to /\ a.bytes = sent.bytes
    BY <2>1 DEF FiledInv, Reached
  <2>2. ASSUME Inv, NEW u \in Users, NEW sent \in outbox[u], sent.via = "relay"
        PROVE  \/ \E d \in mailbox : d.code = sent.code /\ d.bytes = sent.bytes
               \/ \E c \in Clerks : /\ "code" \in DOMAIN work[c] /\ work[c].code = sent.code
                                    /\ work[c].bytes = sent.bytes
               \/ /\ Contains(redeemed, sent.code)
                  /\ \E a \in arrived : a.bytes = sent.bytes
    <3>1. Findable(mailbox, work, redeemed, arrived, sent.code, sent.bytes)
      BY <2>2 DEF DepositInv
    <3>2. \A w : IsParcel(w) => "code" \in DOMAIN w
      BY DEF IsParcel, Parcel
    <3>3. InInbox(redeemed, sent.code) => Contains(redeemed, sent.code)
      BY DEF InInbox, Contains
    <3>4. QED
      BY <3>1, <3>2, <3>3 DEF Findable, MailHas, HandHas, FiledHas
  <2>3. QED
    BY <2>1, <2>2 DEF OutboxSpeaksTrue
<1>5. QED
  BY <1>1, <1>3, <1>4, PTL DEF ExchangeSpec
-----------------------------------------------------------------------------
Sessions == [cur : Keys \cup {NoKey}, old : Seq(Keys)]

\* The session has the keys of the last History + 1 captures of the account: the
\* j-th before the last is the key in use or among the last j of the older ones.
Remembers(s, keys) ==
  \A j \in 0..History : j < Len(keys) =>
    \/ keys[Len(keys) - j] = s.cur
    \/ \E i \in 1..j : i <= Len(s.old) /\ keys[Len(keys) - j] = s.old[Len(s.old) + 1 - i]

Remembering(s, keys) ==
  /\ s \in Sessions /\ keys \in Seq(Keys)
  /\ Len(s.old) <= History
  /\ s.cur = NoKey => keys = <<>>
  /\ Remembers(s, keys)

\* set_secret: what was in use becomes the newest of the older keys; the same key again changes
\* nothing, though one more capture is counted.
LEMMA SetSecretRemembers ==
  ASSUME NEW s, NEW keys, Remembering(s, keys), NEW k \in Keys
  PROVE  Remembering(SetSecret(s, k), Append(keys, k))
<1> DEFINE more == Append(keys, k)
<1>1. PICK t : t = SetSecret(s, k)
  OBVIOUS
<1>2. /\ s.cur \in Keys \cup {NoKey} /\ s.old \in Seq(Keys) /\ Len(s.old) <= History
      /\ keys \in Seq(Keys) /\ Len(keys) \in Nat /\ Len(s.old) \in Nat /\ History \in Nat
  BY ExchangeAssumption DEF Remembering, Sessions
<1>3. /\ more \in Seq(Keys) /\ Len(more) = Len(keys) + 1 /\ more[Len(keys) + 1] = k
      /\ \A n \in 1..Len(keys) : more[n] = keys[n]
  BY <1>2
<1> HIDE DEF more
<1>4. CASE s.cur = k
  <2>1. t = s
    BY <1>1, <1>4 DEF SetSecret
  <2>2. ASSUME NEW j \in 0..History, j < Len(more)
        PROVE  \/ more[Len(more) - j] = s.cur
               \/ \E i \in 1..j : i <= Len(s.old) /\ more[Len(more) - j] = s.old[Len(s.old) + 1 - i]
    <3>1. CASE j = 0
      BY <1>2, <1>3, <1>4, <3>1
    <3>2. CASE j # 0
      <4>1. j - 1 \in 0..History /\ j - 1 < Len(keys) /\ Len(keys) - (j - 1) = Len(more) - j
            /\ Len(more) - j \in 1..Len(keys)
        BY <1>2, <1>3, <2>2, <3>2
      <4>2. \/ keys[Len(keys) - (j - 1)] = s.cur
            \/ \E i \in 1..(j - 1) : i <= Len(s.old)
                                     /\ keys[Len(keys) - (j - 1)] = s.old[Len(s.old) + 1 - i]
        BY <4>1 DEF Remembering, Remembers
      <4>3. 1..(j - 1) \subseteq 1..j
        BY <1>2
      <4>4. QED
        BY <1>3, <4>1, <4>2, <4>3
    <3>3. QED
      BY <3>1, <3>2
  <2>3. s \in Sessions /\ s.cur # NoKey
    BY <1>4, SentinelAssumption DEF Remembering
  <2>4. QED
    BY <1>1, <1>2, <1>3, <2>1, <2>2, <2>3 DEF Remembering, Remembers, more
<1>5. CASE s.cur # k
  <2> DEFINE pushed == Append(s.old, s.cur)
             old == IF s.cur = NoKey THEN s.old
                    ELSE IF Len(pushed) > History THEN Tail(pushed) ELSE pushed
  <2>1. t = [cur |-> k, old |-> old]
    BY <1>1, <1>5 DEF SetSecret
  <2>2. s.cur # NoKey => /\ s.cur \in Keys /\ pushed \in Seq(Keys) /\ Len(pushed) = Len(s.old) + 1
                         /\ pushed[Len(s.old) + 1] = s.cur
                         /\ \A n \in 1..Len(s.old) : pushed[n] = s.old[n]
    BY <1>2
  <2> HIDE DEF pushed
  <2>3. s.cur # NoKey /\ Len(pushed) > History =>
          /\ Tail(pushed) \in Seq(Keys) /\ Len(Tail(pushed)) = Len(s.old) /\ Len(s.old) = History
          /\ \A n \in 1..Len(s.old) : Tail(pushed)[n] = pushed[n + 1]
    BY <1>2, <2>2
  <2>4. old \in Seq(Keys) /\ Len(old) <= History /\ Len(old) \in Nat
    BY <1>2, <2>2, <2>3
  <2>5. t.cur = k /\ t.old = old /\ t \in Sessions /\ t.cur # NoKey
    BY <2>1, <2>4, SentinelAssumption DEF Sessions
  <2>6. ASSUME s.cur # NoKey, NEW i \in 1..History, i <= Len(s.old) + 1
        PROVE  i <= Len(old) /\ old[Len(old) + 1 - i] = pushed[Len(s.old) + 2 - i]
    <3>1. CASE Len(pushed) > History
      <4>1. old = Tail(pushed)
        BY <2>6, <3>1
      <4>2. Len(old) = Len(s.old) /\ Len(s.old) = History
        BY <2>3, <2>6, <3>1, <4>1
      <4>3. Len(s.old) + 1 - i \in 1..Len(s.old)
        BY <1>2, <2>6, <4>2
      <4> HIDE DEF old
      <4>4. Tail(pushed)[Len(s.old) + 1 - i] = pushed[(Len(s.old) + 1 - i) + 1]
        BY <2>3, <2>6, <3>1, <4>3
      <4>5. (Len(s.old) + 1 - i) + 1 = Len(s.old) + 2 - i
        BY <1>2
      <4>6. QED
        BY <1>2, <4>1, <4>2, <4>4, <4>5
    <3>2. CASE ~(Len(pushed) > History)
      <4>1. old = pushed /\ Len(old) = Len(s.old) + 1
        BY <2>2, <2>6, <3>2
      <4> HIDE DEF old
      <4>2. Len(old) + 1 - i = Len(s.old) + 2 - i
        BY <1>2, <4>1
      <4>3. QED
        BY <2>6, <4>1, <4>2
    <3>3. QED
      BY <3>1, <3>2
  <2> HIDE DEF old
  <2>7. ASSUME NEW j \in 0..History, j < Len(more)
        PROVE  \/ more[Len(more) - j] = k
               \/ \E i \in 1..j : i <= Len(old) /\ more[Len(more) - j] = old[Len(old) + 1 - i]
    <3>1. CASE j = 0
      BY <1>2, <1>3, <3>1
    <3>2. CASE j # 0
      <4>1. /\ j - 1 \in 0..History /\ j - 1 < Len(keys) /\ Len(keys) - (j - 1) = Len(more) - j
            /\ Len(more) - j \in 1..Len(keys)
        BY <1>2, <1>3, <2>7, <3>2
      <4>2. s.cur # NoKey
        BY <4>1 DEF Remembering
      <4>3. CASE keys[Len(keys) - (j - 1)] = s.cur
        <5>1. 1 \in 1..History /\ 1 \in 1..j /\ 1 <= Len(s.old) + 1 /\ Len(s.old) + 2 - 1 = Len(s.old) + 1
          BY <1>2, <3>2
        <5>2. 1 <= Len(old) /\ old[Len(old) + 1 - 1] = s.cur
          BY <2>2, <2>6, <4>2, <5>1
        <5>3. more[Len(more) - j] = s.cur
          BY <1>3, <4>1, <4>3
        <5>4. QED
          BY <5>1, <5>2, <5>3
      <4>4. CASE \E i \in 1..(j - 1) : i <= Len(s.old)
                                       /\ keys[Len(keys) - (j - 1)] = s.old[Len(s.old) + 1 - i]
        <5>1. PICK i \in 1..(j - 1) : i <= Len(s.old)
                                     /\ keys[Len(keys) - (j - 1)] = s.old[Len(s.old) + 1 - i]
          BY <4>4
        <5>2. /\ i + 1 \in 1..j /\ i + 1 \in 1..History /\ i + 1 <= Len(s.old) + 1
              /\ Len(s.old) + 1 - i \in 1..Len(s.old)
              /\ Len(s.old) + 2 - (i + 1) = Len(s.old) + 1 - i
          BY <1>2, <5>1, <3>2
        <5>3. i + 1 <= Len(old) /\ old[Len(old) + 1 - (i + 1)] = s.old[Len(s.old) + 1 - i]
          BY <2>2, <2>6, <4>2, <5>2
        <5>4. more[Len(more) - j] = s.old[Len(s.old) + 1 - i]
          BY <1>3, <4>1, <5>1
        <5>5. QED
          BY <5>2, <5>3, <5>4
      <4>5. QED
        BY <4>1, <4>3, <4>4 DEF Remembering, Remembers
    <3>3. QED
      BY <3>1, <3>2
  <2>8. QED
    BY <1>1, <1>3, <2>4, <2>5, <2>7 DEF Remembering, Remembers, more
<1>6. QED
  BY <1>4, <1>5

KeysInv ==
  /\ session = [u \in Users |-> session[u]] /\ captured = [u \in Users |-> captured[u]]
  /\ \A u \in Users : Remembering(session[u], captured[u])

\* A session that remembers opens what was sealed under its recent keys.
LEMMA KeysOpen ==
  ASSUME KeysInv
  PROVE  RecentKeysOpen
<1>1. SUFFICES ASSUME NEW u \in Users, NEW n \in 1..Len(captured[u]), n >= Len(captured[u]) - History,
                      NEW file \in Docs
               PROVE  OpenAgainst(ContainerBytes(SealDocument(file, captured[u][n]), TRUE), Known(u))
                        = {file}
  BY DEF RecentKeysOpen
<1> DEFINE keys == captured[u]
           s == session[u]
<1>2. /\ keys \in Seq(Keys) /\ Remembers(s, keys) /\ s.cur \in Keys \cup {NoKey} /\ s.old \in Seq(Keys)
      /\ History \in Nat /\ Len(keys) \in Nat /\ Len(s.old) \in Nat
  BY ExchangeAssumption DEF KeysInv, Remembering, Sessions
<1>3. Known(u) = (IF s.cur = NoKey THEN {} ELSE {s.cur}) \cup Range(s.old)
  BY DEF Known
<1>4. Known(u) \in SUBSET Keys
  BY <1>2, <1>3 DEF Range
<1> HIDE DEF keys, s
<1>5. keys[n] \in Keys /\ n \in 1..Len(keys) /\ n >= Len(keys) - History
  BY <1>1, <1>2 DEF keys
<1>6. keys[n] \in Known(u)
  <2>1. PICK j : j = Len(keys) - n
    OBVIOUS
  <2>2. j \in 0..History /\ j < Len(keys) /\ Len(keys) - j = n
    BY <1>2, <1>5, <2>1
  <2>3. \/ keys[n] = s.cur
        \/ \E i \in 1..j : i <= Len(s.old) /\ keys[n] = s.old[Len(s.old) + 1 - i]
    BY <1>2, <2>2 DEF Remembers
  <2>4. CASE keys[n] = s.cur
    BY <1>3, <1>5, <2>4, SentinelAssumption
  <2>5. ASSUME NEW i \in 1..j, i <= Len(s.old), keys[n] = s.old[Len(s.old) + 1 - i]
        PROVE  keys[n] \in Known(u)
    <3>1. Len(s.old) + 1 - i \in DOMAIN s.old
      BY <1>2, <2>2, <2>5
    <3>2. QED
      BY <1>3, <2>5, <3>1 DEF Range
  <2>6. QED
    BY <2>3, <2>4, <2>5
<1>7. OpenAgainst(ContainerBytes(SealDocument(file, keys[n]), TRUE), Known(u)) = {file}
  <2>1. PICK k \in Keys, S \in SUBSET Keys : k = keys[n] /\ S = Known(u)
    BY <1>4, <1>5
  <2>2. k \in S
    BY <1>6, <2>1
  <2>3. OpenAgainst(ContainerBytes(SealDocument(file, k), TRUE), S) = {file}
    BY <2>2, SealedOpens
  <2>4. QED
    BY <2>1, <2>3
<1>8. QED
  BY <1>7 DEF keys

\* Every step keeps KeysInv, which
LEMMA KeysStep ==
  ASSUME KeysInv, profile.clerks \subseteq Clerks, ExchangeNext
  PROVE  KeysInv'
<1>1. ASSUME UNCHANGED <<session, captured>>
      PROVE  KeysInv'
  BY <1>1 DEF KeysInv
<1>2. ASSUME NEW u \in Users, NEW k \in Keys,
             session' = [session EXCEPT ![u] = SetSecret(@, k)],
             captured' = [captured EXCEPT ![u] = Append(@, k)]
      PROVE  KeysInv'
  <2>1. /\ session' = [x \in Users |-> session'[x]] /\ captured' = [x \in Users |-> captured'[x]]
        /\ session'[u] = SetSecret(session[u], k) /\ captured'[u] = Append(captured[u], k)
        /\ \A x \in Users : x # u => session'[x] = session[x] /\ captured'[x] = captured[x]
    BY <1>2 DEF KeysInv
  <2>2. Remembering(session'[u], captured'[u])
    BY <2>1, SetSecretRemembers DEF KeysInv
  <2>3. \A x \in Users : Remembering(session'[x], captured'[x])
    BY <2>1, <2>2 DEF KeysInv
  <2>4. QED
    BY <2>1, <2>3 DEF KeysInv
<1>3. ASSUME NEW u \in Users, OwnStep(u)
      PROVE  KeysInv'
  BY <1>1, <1>2, <1>3, Zenon DEF OwnStep, Login, Capture, DocSeal, InboxDelete, OutboxDelete, keyVars
<1>4. ASSUME NEW bytes, OpenStep(bytes)
      PROVE  KeysInv'
  BY <1>1, <1>4, Zenon DEF OpenStep, AttackDocument, keyVars
<1>5. ASSUME NEW c, NEW u \in Users, BeginStep(c, u)
      PROVE  KeysInv'
  BY <1>1, <1>2, <1>5, Zenon DEF BeginStep, RelayDeposit, BeginTransfer, BeginSend, BeginReceive,
     BeginTheater, BeginVerify, BeginClaim, keyVars
<1>6. ASSUME NEW c, LaterStep(c)
      PROVE  KeysInv'
  BY <1>1, <1>6, Zenon DEF LaterStep, Judge, Reveal, Push, Undeliverable, RecordSent, RecordDeposit,
     CheckUnderKeys, RecordVerdict, PutBack, EndTransfer, keyVars
<1>7. ASSUME NEW s, NEW keys, s = Fresh, keys = <<>>
      PROVE  Remembering(s, keys)
  BY <1>7, ExchangeAssumption DEF Remembering, Remembers, Sessions, Fresh
<1>8. CASE Restart
  BY <1>7, <1>8 DEF Restart, KeysInv
<1>9. QED
  BY <1>3, <1>4, <1>5, <1>6, <1>8, Steps

\* holds at the start.
LEMMA KeysInit ==
  ASSUME ExchangeInit
  PROVE  KeysInv
<1>1. ASSUME NEW s, NEW keys, s = Fresh, keys = <<>>
      PROVE  Remembering(s, keys)
  BY <1>1, ExchangeAssumption DEF Remembering, Remembers, Sessions, Fresh
<1>2. QED
  BY <1>1 DEF ExchangeInit, KeysInv

\* A document opens, and gives back the file, until History + 1 later keys have been
\* distilled for its account, by whichever endpoints, also in the middle of a transfer.
THEOREM RecentKeysAlwaysOpen == ExchangeSpec => []RecentKeysOpen
<1>1. KeysInv /\ UNCHANGED exchangeVars => KeysInv'
  BY DEF KeysInv, exchangeVars
<1>2. ShapeInv /\ KeysInv /\ [ExchangeNext]_exchangeVars => (ShapeInv /\ KeysInv)'
  BY <1>1, KeysStep, ShapeStep, ShapeStutter, ExchangeAssumption DEF ShapeInv
<1>3. ExchangeInit => ShapeInv /\ KeysInv
  BY KeysInit, ShapeInit
<1>4. KeysInv => RecentKeysOpen
  BY KeysOpen
<1>5. QED
  BY <1>2, <1>3, <1>4, PTL DEF ExchangeSpec
-----------------------------------------------------------------------------
\* Every key that a session knows was captured for its account.
Knows(s, keys) == (IF s.cur = NoKey THEN {} ELSE {s.cur}) \cup Range(s.old) \subseteq Range(keys)

KnownInv == \A u \in Users : Knows(session[u], captured[u])

\* The elements of a longer and of a shorter list.
LEMMA AppendRange ==
  ASSUME NEW keys \in Seq(Keys), NEW k \in Keys
  PROVE  Range(Append(keys, k)) = Range(keys) \cup {k}
<1>1. PICK more : more = Append(keys, k)
  OBVIOUS
<1>2. /\ DOMAIN keys = 1..Len(keys) /\ DOMAIN more = 1..(Len(keys) + 1) /\ Len(keys) \in Nat
      /\ more[Len(keys) + 1] = k
      /\ \A n \in 1..Len(keys) : more[n] = keys[n]
  BY <1>1
<1>3. 1..(Len(keys) + 1) = 1..Len(keys) \cup {Len(keys) + 1}
  BY <1>2
<1>4. Range(more) = Range(keys) \cup {k}
  BY <1>2, <1>3 DEF Range
<1>5. QED
  BY <1>1, <1>4

LEMMA TailRange ==
  ASSUME NEW keys \in Seq(Keys), keys # <<>>
  PROVE  Range(Tail(keys)) \subseteq Range(keys)
<1>1. PICK less : less = Tail(keys)
  OBVIOUS
<1>2. /\ DOMAIN keys = 1..Len(keys) /\ DOMAIN less = 1..(Len(keys) - 1) /\ Len(keys) \in Nat
      /\ \A n \in 1..(Len(keys) - 1) : less[n] = keys[n + 1]
  BY <1>1
<1>3. \A n \in 1..(Len(keys) - 1) : n + 1 \in 1..Len(keys)
  BY <1>2
<1>4. QED
  BY <1>1, <1>2, <1>3 DEF Range

\* set_secret adds no other key.
LEMMA SetSecretKnows ==
  ASSUME NEW s \in Sessions, NEW keys \in Seq(Keys), Knows(s, keys), NEW k \in Keys
  PROVE  Knows(SetSecret(s, k), Append(keys, k))
<1>1. PICK t : t = SetSecret(s, k)
  OBVIOUS
<1>2. Range(Append(keys, k)) = Range(keys) \cup {k}
  BY AppendRange
<1>3. CASE s.cur = k
  BY <1>2, <1>3 DEF SetSecret, Knows
<1>4. CASE s.cur # k
  <2> DEFINE pushed == Append(s.old, s.cur)
             old == IF s.cur = NoKey THEN s.old
                    ELSE IF Len(pushed) > History THEN Tail(pushed) ELSE pushed
  <2>1. t.cur = k /\ t.old = old
    BY <1>1, <1>4 DEF SetSecret
  <2>2. s.old \in Seq(Keys) /\ s.cur \in Keys \cup {NoKey}
    BY DEF Sessions
  <2>3. s.cur # NoKey => /\ Range(pushed) = Range(s.old) \cup {s.cur}
                         /\ pushed \in Seq(Keys) /\ pushed # <<>>
    <3>1. ASSUME s.cur \in Keys
          PROVE  Range(pushed) = Range(s.old) \cup {s.cur} /\ pushed \in Seq(Keys)
      BY <2>2, <3>1, AppendRange
    <3>2. ASSUME s.cur \in Keys
          PROVE  pushed # <<>>
      <4>1. Len(pushed) = Len(s.old) + 1 /\ Len(s.old) \in Nat
        BY <2>2, <3>2
      <4>2. Len(<<>>) = 0
        OBVIOUS
      <4> HIDE DEF pushed
      <4>3. QED
        BY <4>1, <4>2
    <3>3. QED
      BY <2>2, <3>1, <3>2
  <2>4. s.cur # NoKey => Range(Tail(pushed)) \subseteq Range(pushed)
    BY <2>3, TailRange
  <2> HIDE DEF pushed
  <2>5. Range(old) \subseteq Range(keys)
    BY <2>3, <2>4 DEF Knows
  <2> HIDE DEF old
  <2>6. QED
    BY <1>1, <1>2, <2>1, <2>5 DEF Knows
<1>5. QED
  BY <1>3, <1>4

Grows == \A u \in Users : Range(captured[u]) \subseteq Range(captured'[u])

\* Sessions and captures only move together; nothing that was captured is forgotten.
LEMMA KnownStep ==
  ASSUME KeysInv, KnownInv, ExchangeNext
  PROVE  KnownInv' /\ (Restart \/ Grows)
<1>1. ASSUME UNCHANGED <<session, captured>>
      PROVE  KnownInv' /\ Grows
  BY <1>1 DEF KnownInv, Grows
<1>2. ASSUME NEW u \in Users, NEW k \in Keys,
             session' = [session EXCEPT ![u] = SetSecret(@, k)],
             captured' = [captured EXCEPT ![u] = Append(@, k)]
      PROVE  KnownInv' /\ Grows
  <2>1. /\ session'[u] = SetSecret(session[u], k) /\ captured'[u] = Append(captured[u], k)
        /\ \A x \in Users : x # u => session'[x] = session[x] /\ captured'[x] = captured[x]
    BY <1>2 DEF KeysInv
  <2>2. session[u] \in Sessions /\ captured[u] \in Seq(Keys)
    BY DEF KeysInv, Remembering
  <2>3. Knows(session'[u], captured'[u])
    BY <2>1, <2>2, SetSecretKnows DEF KnownInv
  <2>4. Range(captured'[u]) = Range(captured[u]) \cup {k}
    BY <2>1, <2>2, AppendRange
  <2>5. \A x \in Users : Range(captured[x]) \subseteq Range(captured'[x])
    BY <2>1, <2>4
  <2>6. \A x \in Users : Knows(session'[x], captured'[x])
    BY <2>1, <2>3 DEF KnownInv
  <2>7. QED
    BY <2>5, <2>6 DEF KnownInv, Grows
<1>3. ASSUME NEW u \in Users, OwnStep(u)
      PROVE  KnownInv' /\ Grows
  BY <1>1, <1>2, <1>3, Zenon DEF OwnStep, Login, Capture, DocSeal, InboxDelete, OutboxDelete, keyVars
<1>4. ASSUME NEW bytes, OpenStep(bytes)
      PROVE  KnownInv' /\ Grows
  BY <1>1, <1>4, Zenon DEF OpenStep, AttackDocument, keyVars
<1>5. ASSUME NEW c, NEW u \in Users, BeginStep(c, u)
      PROVE  KnownInv' /\ Grows
  BY <1>1, <1>2, <1>5, Zenon DEF BeginStep, RelayDeposit, BeginTransfer, BeginSend, BeginReceive,
     BeginTheater, BeginVerify, BeginClaim, keyVars
<1>6. ASSUME NEW c, LaterStep(c)
      PROVE  KnownInv' /\ Grows
  BY <1>1, <1>6, Zenon DEF LaterStep, Judge, Reveal, Push, Undeliverable, RecordSent, RecordDeposit,
     CheckUnderKeys, RecordVerdict, PutBack, EndTransfer, keyVars
<1>7. Knows(Fresh, <<>>)
  BY DEF Knows, Fresh, Range
<1>8. CASE Restart
  BY <1>7, <1>8 DEF Restart, KnownInv
<1>9. QED
  BY <1>3, <1>4, <1>5, <1>6, <1>8, Steps
-----------------------------------------------------------------------------
Entry(to, id, bytes) == [to |-> to, id |-> id, bytes |-> bytes]

Passes(keys, bytes) == VerifyAgainst(bytes, Range(keys)) = "passed"

\* Metadata, when shown, is what the container says to somebody with these keys.
Says(keys, bytes, meta) ==
  meta # HiddenMeta =>
    \E d \in UnsealAgainst(bytes, Range(keys)) \cup {ParseContainer(bytes).doc} : d.meta = meta

\* What a handler knows is true of the item it is about.
WorkTrue(w, keys, filed) ==
  /\ IsParcel(w) => /\ w.can => Passes(keys[w.to], w.bytes)
                    /\ Says(keys[w.to], w.bytes, w.meta)
  /\ IsCheck(w) => Entry(w.to, w.id, w.bytes) \in filed
  /\ IsVerdict(w) => \E bytes : /\ Entry(w.to, w.id, bytes) \in filed
                                /\ w.passed => Passes(keys[w.to], bytes)
                                /\ Says(keys[w.to], bytes, w.meta)

IsItem(i) == i = [id |-> i.id, bytes |-> i.bytes, meta |-> i.meta, verified |-> i.verified]

ItemTrue(u, i, keys, filed) ==
  /\ IsItem(i)
  /\ i.verified = "yes" => Passes(keys, i.bytes)
  /\ Says(keys, i.bytes, i.meta)
  /\ Entry(u, i.id, i.bytes) \in filed

InboxInv ==
  /\ ShapeInv /\ KeysInv /\ KnownInv
  /\ inbox = [u \in Users |-> inbox[u]] /\ nextItem \in [Users -> Nat]
  /\ \A a \in arrived : a.to \in Users /\ a.id \in Nat /\ a.id < nextItem[a.to]
  /\ \A a, b \in arrived : a.to = b.to /\ a.id = b.id => a.bytes = b.bytes
  /\ \A u \in Users : \A i \in inbox[u] : ItemTrue(u, i, captured[u], arrived)
  /\ \A c \in Clerks : WorkTrue(work[c], captured, arrived)

LEMMA EntryOf ==
  ASSUME NEW to, NEW id, NEW bytes
  PROVE  /\ Entry(to, id, bytes).to = to /\ Entry(to, id, bytes).id = id
         /\ Entry(to, id, bytes).bytes = bytes
BY DEF Entry

\* More keys pass what fewer did, and show what fewer did.
LEMMA TruthGrows ==
  ASSUME NEW keys, NEW more, Range(keys) \subseteq Range(more), NEW bytes
  PROVE  /\ Passes(keys, bytes) => Passes(more, bytes)
         /\ \A meta : Says(keys, bytes, meta) => Says(more, bytes, meta)
<1>1. Passes(keys, bytes) => Passes(more, bytes)
  BY VerifyGrows DEF Passes
<1>2. \A meta : Says(keys, bytes, meta) => Says(more, bytes, meta)
  BY UnsealGrows DEF Says
<1>3. QED
  BY <1>1, <1>2

\* What a handler carries stays true when keys and items are added,
LEMMA WorkTrueGrows ==
  ASSUME NEW w, Shaped(w), NEW keys, NEW more, NEW filed, NEW later, WorkTrue(w, keys, filed),
         \A u \in Users : Range(keys[u]) \subseteq Range(more[u]), filed \subseteq later
  PROVE  WorkTrue(w, more, later)
<1>1. CASE IsParcel(w)
  <2>1. w.to \in Users /\ w.op \in Stages
    BY <1>1 DEF IsParcel
  <2>2. ~IsCheck(w) /\ ~IsVerdict(w)
    BY <2>1 DEF IsCheck, IsVerdict, Stages
  <2>3. QED
    BY <1>1, <2>1, <2>2, TruthGrows DEF WorkTrue
<1>2. CASE ~IsParcel(w)
  <2>1. IsVerdict(w) => w.to \in Users
    BY DEF IsVerdict
  <2>2. QED
    BY <1>2, <2>1, TruthGrows DEF WorkTrue
<1>3. QED
  BY <1>1, <1>2

\* and so does what an inbox says.
LEMMA ItemTrueGrows ==
  ASSUME NEW u, NEW i, NEW keys, NEW more, NEW filed, NEW later, ItemTrue(u, i, keys, filed),
         Range(keys) \subseteq Range(more), filed \subseteq later
  PROVE  ItemTrue(u, i, more, later)
BY TruthGrows DEF ItemTrue

\* The invariant implies the property.
LEMMA InboxInvSuffices ==
  ASSUME InboxInv
  PROVE  InboxSpeaksTrue
<1>1. SUFFICES ASSUME NEW u \in Users, NEW i \in inbox[u]
               PROVE  /\ i.verified = "yes" => VerifyAgainst(i.bytes, Range(captured[u])) = "passed"
                      /\ i.meta # HiddenMeta =>
                           \E d \in UnsealAgainst(i.bytes, Range(captured[u]))
                                      \cup {ParseContainer(i.bytes).doc} : d.meta = i.meta
                      /\ [to |-> u, id |-> i.id, bytes |-> i.bytes] \in arrived
  BY DEF InboxSpeaksTrue
<1>2. ItemTrue(u, i, captured[u], arrived)
  BY DEF InboxInv
<1>3. QED
  BY <1>2 DEF ItemTrue, Passes, Says, Entry

\* A step that leaves the inboxes, after which each handler still knows what is true.
LEMMA InboxRests ==
  ASSUME InboxInv, ShapeInv', KeysInv', KnownInv', Grows, UNCHANGED <<inbox, nextItem, arrived>>,
         \A c \in Clerks : WorkTrue(work'[c], captured', arrived)
  PROVE  InboxInv'
<1>1. \A u \in Users : \A i \in inbox[u] : ItemTrue(u, i, captured'[u], arrived)
  BY ItemTrueGrows DEF InboxInv, Grows
<1>2. QED
  BY <1>1 DEF InboxInv

\* One handler turns to something true.
LEMMA InboxTurns ==
  ASSUME InboxInv, ShapeInv', KeysInv', KnownInv', Grows, UNCHANGED <<inbox, nextItem, arrived>>,
         NEW c \in Clerks, NEW w, Turns(c, w), WorkTrue(w, captured', arrived)
  PROVE  InboxInv'
<1>1. ASSUME NEW g \in Clerks
      PROVE  WorkTrue(work'[g], captured', arrived)
  <2>1. work'[g] = IF g = c THEN w ELSE work[g]
    BY TurnsOne DEF InboxInv
  <2>2. WorkTrue(work[g], captured', arrived)
    BY WorkTrueGrows DEF InboxInv, ShapeInv, Grows
  <2>3. QED
    BY <2>1, <2>2
<1>2. QED
  BY <1>1, InboxRests

\* Some handlers carry nothing about an item.
LEMMA NothingKnown ==
  ASSUME NEW w, w = NoWork \/ IsTransfer(w) \/ IsParked(w), NEW keys, NEW filed
  PROVE  WorkTrue(w, keys, filed)
BY DEF WorkTrue, NoWork, IsTransfer, IsParked, IsParcel, IsCheck, IsVerdict, Stages

LEMMA ParcelTrue ==
  ASSUME NEW w, IsParcel(w), NEW keys, NEW filed, w.can => Passes(keys[w.to], w.bytes),
         Says(keys[w.to], w.bytes, w.meta)
  PROVE  WorkTrue(w, keys, filed)
BY DEF WorkTrue, IsParcel, IsCheck, IsVerdict, Stages

\* A new delivery claims nothing.
LEMMA DeliveryTrue ==
  ASSUME NEW via \in {"local", "laptop", "receive", "theater", "relay"}, NEW by \in Users,
         NEW to \in Users, NEW bytes, NEW code, NEW bad \in BOOLEAN, NEW keys, NEW filed
  PROVE  WorkTrue(Delivery(via, by, to, bytes, code, bad), keys, filed)
<1>1. PICK w : w = Delivery(via, by, to, bytes, code, bad)
  OBVIOUS
<1>2. Shaped(w)
  BY <1>1, DeliveryShaped, Zenon
<1>3. ~w.can /\ w.meta = HiddenMeta /\ w.op \in Stages
  BY <1>1 DEF Delivery, Stages
<1>4. IsParcel(w)
  BY <1>2, <1>3, OpOf
<1>5. QED
  BY <1>1, <1>3, <1>4, ParcelTrue DEF Says

\* The next stage of a delivery, of which all that is found out is true.
LEMMA StageTrue ==
  ASSUME InboxInv, ShapeInv', KeysInv', KnownInv', Grows, UNCHANGED <<inbox, nextItem, arrived>>,
         NEW c \in Clerks, NEW w, w = work[c], IsParcel(w), NEW op \in Stages, NEW can \in BOOLEAN,
         NEW meta, After(c, op, can, meta), UNCHANGED captured,
         can => w.can \/ VerifyAgainst(w.bytes, Known(w.to)) = "passed",
         meta \in {w.meta, Shown(w)}
  PROVE  InboxInv'
<1>1. PICK p : p = Parcel(op, w.via, w.by, w.to, w.bytes, w.code, w.bad, can, meta)
  OBVIOUS
<1>2. /\ w.via \in {"local", "laptop", "receive", "theater", "relay"} /\ w.by \in Users
      /\ w.to \in Users /\ w.bad \in BOOLEAN
  BY DEF IsParcel
<1>3. /\ IsParcel(p) /\ p.to = w.to /\ p.bytes = w.bytes /\ p.meta = meta
      /\ p.can = can
  BY <1>1, <1>2, IsParcelOf
<1>4. WorkTrue(w, captured, arrived)
  BY DEF InboxInv
<1>5. Known(w.to) \subseteq Range(captured[w.to])
  BY <1>2 DEF InboxInv, KnownInv, Knows, Known
<1>6. can => Passes(captured[w.to], w.bytes)
  BY <1>4, <1>5, VerifyGrows DEF WorkTrue, Passes
<1>7. Says(captured[w.to], w.bytes, meta)
  <2>1. CASE meta = w.meta
    BY <1>4, <2>1 DEF WorkTrue
  <2>2. CASE meta = Shown(w)
    <3>1. UnsealAgainst(w.bytes, Known(w.to)) \subseteq UnsealAgainst(w.bytes, Range(captured[w.to]))
      BY <1>5, UnsealGrows
    <3>2. CASE UnsealAgainst(w.bytes, Known(w.to)) # {}
      <4>1. (CHOOSE d \in UnsealAgainst(w.bytes, Known(w.to)) : TRUE)
              \in UnsealAgainst(w.bytes, Known(w.to))
        BY <3>2
      <4>2. meta = (CHOOSE d \in UnsealAgainst(w.bytes, Known(w.to)) : TRUE).meta
        BY <2>2, <3>2 DEF Shown
      <4>3. QED
        BY <3>1, <4>1, <4>2 DEF Says
    <3>3. CASE UnsealAgainst(w.bytes, Known(w.to)) = {}
      <4>1. meta = ParseContainer(w.bytes).doc.meta \/ meta = HiddenMeta
        BY <2>2, <3>3 DEF Shown
      <4>2. QED
        BY <4>1 DEF Says
    <3>4. QED
      BY <3>2, <3>3
  <2>3. QED
    BY <2>1, <2>2
<1>8. WorkTrue(p, captured', arrived)
  <2>1. p.can => Passes(captured[p.to], p.bytes)
    BY <1>3, <1>6, Zenon
  <2>2. Says(captured[p.to], p.bytes, p.meta)
    BY <1>3, <1>7
  <2>3. QED
    BY <1>3, <2>1, <2>2, ParcelTrue
<1>9. Turns(c, p)
  BY <1>1, Zenon DEF After
<1>10. QED
  BY <1>8, <1>9, InboxTurns

\* Filing: a fresh number, and what the delivery has found out.
LEMMA PushTrue ==
  ASSUME InboxInv, ShapeInv', KeysInv', KnownInv', Grows, NEW c \in Clerks, Push(c)
  PROVE  InboxInv'
<1>0. ShapeInv
  BY DEF InboxInv
<1>1. PICK w : w = work[c]
  OBVIOUS
<1>2. PICK item : item = Item(w)
  OBVIOUS
<1>3. PICK a : a = [to |-> w.to, id |-> nextItem[w.to], bytes |-> w.bytes]
  OBVIOUS
<1>4. /\ IsParcel(w)
      /\ inbox' = [inbox EXCEPT ![w.to] = @ \cup {item}]
      /\ nextItem' = [nextItem EXCEPT ![w.to] = @ + 1]
      /\ arrived' = arrived \cup {a}
      /\ Turns(c, NoWork) \/ After(c, "filed", w.can, w.meta)
  BY <1>0, <1>1, <1>2, <1>3, PushSteps
<1>5. captured' = captured
  BY DEF Push, keyVars
<1>6. w.to \in Users /\ nextItem[w.to] \in Nat /\ w.bad \in BOOLEAN /\ w.can \in BOOLEAN
  BY <1>4 DEF IsParcel, InboxInv
<1>7. a.to = w.to /\ a.id = nextItem[w.to] /\ a.bytes = w.bytes
      /\ a = Entry(w.to, nextItem[w.to], w.bytes)
  BY <1>3 DEF Entry
<1>8. /\ item.id = nextItem[w.to] /\ item.bytes = w.bytes /\ item.meta = w.meta
      /\ item.verified = "yes" => w.can
      /\ IsItem(item)
  BY <1>2, <1>6 DEF Item, IsItem
<1>9. WorkTrue(w, captured, arrived)
  BY <1>1 DEF InboxInv
<1>10. ItemTrue(w.to, item, captured[w.to], arrived')
  BY <1>4, <1>7, <1>8, <1>9 DEF ItemTrue, WorkTrue
<1>11. /\ inbox' = [u \in Users |-> inbox'[u]]
       /\ inbox'[w.to] = inbox[w.to] \cup {item}
       /\ \A u \in Users : u # w.to => inbox'[u] = inbox[u]
  BY <1>4, <1>6 DEF InboxInv
<1>12. ASSUME NEW u \in Users, NEW i \in inbox'[u]
       PROVE  ItemTrue(u, i, captured'[u], arrived')
  <2>1. CASE i \in inbox[u]
    BY <1>4, <1>5, <2>1, ItemTrueGrows DEF InboxInv
  <2>2. CASE i \notin inbox[u]
    BY <1>5, <1>10, <1>11, <1>12, <2>2
  <2>3. QED
    BY <2>1, <2>2
<1>13. /\ nextItem' \in [Users -> Nat] /\ nextItem'[w.to] = nextItem[w.to] + 1
       /\ \A u \in Users : u # w.to => nextItem'[u] = nextItem[u]
  BY <1>4, <1>6 DEF InboxInv
<1>14. \A b \in arrived' : b.to \in Users /\ b.id \in Nat /\ b.id < nextItem'[b.to]
  <2>1. ASSUME NEW b \in arrived
        PROVE  b.to \in Users /\ b.id \in Nat /\ b.id < nextItem'[b.to]
    <3>1. b.to \in Users /\ b.id \in Nat /\ b.id < nextItem[b.to]
      BY DEF InboxInv
    <3>2. CASE b.to = w.to
      BY <1>6, <1>13, <3>1, <3>2
    <3>3. CASE b.to # w.to
      BY <1>13, <3>1, <3>3
    <3>4. QED
      BY <3>2, <3>3
  <2>2. a.to \in Users /\ a.id \in Nat /\ a.id < nextItem'[a.to]
    BY <1>6, <1>7, <1>13
  <2>3. QED
    BY <1>4, <2>1, <2>2
<1>15. \A b, d \in arrived' : b.to = d.to /\ b.id = d.id => b.bytes = d.bytes
  <2>1. ASSUME NEW b \in arrived
        PROVE  ~(b.to = a.to /\ b.id = a.id)
    <3>1. b.id \in Nat /\ b.id < nextItem[b.to]
      BY DEF InboxInv
    <3>2. QED
      BY <1>6, <1>7, <3>1
  <2>2. QED
    BY <1>4, <2>1 DEF InboxInv
<1>16. ASSUME NEW g \in Clerks
       PROVE  WorkTrue(work'[g], captured', arrived')
  <2>1. CASE g # c
    <3>1. work'[g] = work[g]
      BY <1>0, <1>4, <2>1, TurnsOne DEF After
    <3>2. QED
      BY <1>0, <1>4, <1>5, <3>1, WorkTrueGrows DEF InboxInv, ShapeInv
  <2>2. CASE g = c /\ Turns(c, NoWork)
    <3>1. work'[g] = NoWork
      BY <1>0, <2>2, TurnsOne
    <3>2. QED
      BY <3>1, NothingKnown
  <2>3. CASE g = c /\ After(c, "filed", w.can, w.meta)
    <3>1. PICK p : p = Parcel("filed", w.via, w.by, w.to, w.bytes, w.code, w.bad, w.can, w.meta)
      OBVIOUS
    <3>2. work'[g] = p
      BY <1>0, <1>1, <2>3, <3>1, TurnsOne DEF After
    <3>3. IsParcel(p) /\ p.to = w.to /\ p.bytes = w.bytes /\ p.meta = w.meta /\ p.can = w.can
      <4>1. /\ w.via \in {"local", "laptop", "receive", "theater", "relay"} /\ w.by \in Users
            /\ w.to \in Users /\ w.bad \in BOOLEAN /\ w.can \in BOOLEAN /\ "filed" \in Stages
        BY <1>4 DEF IsParcel, Stages
      <4>2. QED
        BY <3>1, <4>1, IsParcelOf
    <3>4. WorkTrue(p, captured', arrived')
      BY <1>4, <1>5, <1>9, <3>3, ParcelTrue DEF WorkTrue
    <3>5. QED
      BY <3>2, <3>4
  <2>4. QED
    BY <1>4, <2>1, <2>2, <2>3
<1>17. QED
  BY <1>11, <1>12, <1>13, <1>14, <1>15, <1>16 DEF InboxInv

\* inbox_verify, its second section: the keys are those of the moment.
LEMMA CheckTrue ==
  ASSUME InboxInv, ShapeInv', KeysInv', KnownInv', Grows, NEW c \in Clerks, CheckUnderKeys(c)
  PROVE  InboxInv'
<1>0. ShapeInv
  BY DEF InboxInv
<1>1. PICK w : w = work[c]
  OBVIOUS
<1>2. UNCHANGED <<inbox, nextItem, arrived>> /\ captured' = captured
  BY Zenon DEF CheckUnderKeys, keyVars
<1>3. IsCheck(w) /\ Entry(w.to, w.id, w.bytes) \in arrived /\ w.to \in Users
  <2>1. IsCheck(w)
    BY <1>0, <1>1, OpOf DEF CheckUnderKeys, Doing, ShapeInv
  <2>2. QED
    BY <1>1, <2>1 DEF InboxInv, WorkTrue, IsCheck
<1>4. CASE Done(c)
  <2>1. Turns(c, NoWork)
    BY <1>4, Zenon DEF Done, Turns
  <2>2. QED
    BY <1>2, <2>1, NothingKnown, InboxTurns
<1>5. Known(w.to) \subseteq Range(captured[w.to])
  BY <1>3 DEF InboxInv, KnownInv, Knows, Known
<1>6. ASSUME NEW p \in BOOLEAN, NEW meta,
             p => VerifyAgainst(w.bytes, Known(w.to)) = "passed",
             meta = ParseContainer(w.bytes).doc.meta
               \/ \E d \in UnsealAgainst(w.bytes, Known(w.to)) : d.meta = meta,
             Turns(c, [op |-> "verdict", to |-> w.to, id |-> w.id, passed |-> p, meta |-> meta])
      PROVE  InboxInv'
  <2>1. PICK v : v = [op |-> "verdict", to |-> w.to, id |-> w.id, passed |-> p, meta |-> meta]
    OBVIOUS
  <2>2. v.to = w.to /\ v.id = w.id /\ v.meta = meta /\ v.op = "verdict"
    BY <2>1
  <2>3. v.passed <=> p
    BY <2>1, Zenon
  <2>4. p => Passes(captured[w.to], w.bytes)
    BY <1>5, <1>6, VerifyGrows DEF Passes
  <2>5. Says(captured[w.to], w.bytes, meta)
    <3>1. UnsealAgainst(w.bytes, Known(w.to)) \subseteq UnsealAgainst(w.bytes, Range(captured[w.to]))
      BY <1>5, UnsealGrows
    <3>2. QED
      BY <1>6, <3>1 DEF Says
  <2>6. ~IsParcel(v) /\ ~IsCheck(v)
    BY <2>2 DEF IsParcel, IsCheck, Stages
  <2>7. /\ Entry(v.to, v.id, w.bytes) \in arrived
        /\ Says(captured'[v.to], w.bytes, v.meta)
    BY <1>2, <1>3, <2>2, <2>5
  <2>8. v.passed => Passes(captured'[v.to], w.bytes)
    BY <1>2, <2>2, <2>3, <2>4, Zenon
  <2>9. WorkTrue(v, captured', arrived)
    BY <2>6, <2>7, <2>8, Zenon DEF WorkTrue
  <2>10. Turns(c, v)
    BY <1>6, <2>1, Zenon
  <2>11. QED
    BY <1>2, <2>9, <2>10, InboxTurns
<1>7. CASE ~Done(c)
  <2> DEFINE docs == UnsealAgainst(w.bytes, Known(w.to))
             meta == IF docs = {} THEN ParseContainer(w.bytes).doc.meta
                     ELSE (CHOOSE d \in docs : TRUE).meta
  <2>1. Turns(c, [op |-> "verdict", to |-> w.to, id |-> w.id,
                  passed |-> VerifyAgainst(w.bytes, Known(w.to)) = "passed", meta |-> meta])
    BY <1>1, <1>7, Zenon DEF CheckUnderKeys, Turns
  <2>2. (VerifyAgainst(w.bytes, Known(w.to)) = "passed") \in BOOLEAN
    OBVIOUS
  <2>3. meta = ParseContainer(w.bytes).doc.meta \/ \E d \in docs : d.meta = meta
    <3>1. docs # {} => (CHOOSE d \in docs : TRUE) \in docs
      OBVIOUS
    <3> HIDE DEF docs
    <3>2. QED
      BY <3>1
  <2> HIDE DEF meta
  <2>4. QED
    BY <1>6, <2>1, <2>2, <2>3, Zenon
<1>8. QED
  BY <1>4, <1>7

\* inbox_verify, its third section: the item with that number is still the one that was checked,
\* for numbers are never used again.
LEMMA VerdictTrue ==
  ASSUME InboxInv, ShapeInv', KeysInv', KnownInv', Grows, NEW c \in Clerks, RecordVerdict(c)
  PROVE  InboxInv'
<1>0. ShapeInv
  BY DEF InboxInv
<1>1. PICK w : w = work[c]
  OBVIOUS
<1>2. /\ inbox' = [inbox EXCEPT ![w.to] =
                    { IF i.id # w.id THEN i
                      ELSE [i EXCEPT !.verified = IF w.passed THEN "yes" ELSE "no", !.meta = w.meta] :
                      i \in @ }]
      /\ Turns(c, NoWork)
      /\ UNCHANGED <<nextItem, arrived>> /\ captured' = captured
  BY <1>1, Zenon DEF RecordVerdict, Done, Turns, keyVars
<1>3. IsVerdict(w) /\ w.to \in Users /\ w.passed \in BOOLEAN
  <2>1. IsVerdict(w)
    BY <1>0, <1>1, OpOf DEF RecordVerdict, Doing, ShapeInv
  <2>2. QED
    BY <2>1 DEF IsVerdict
<1>4. PICK bytes : /\ Entry(w.to, w.id, bytes) \in arrived
                   /\ w.passed => Passes(captured[w.to], bytes)
                   /\ Says(captured[w.to], bytes, w.meta)
  BY <1>1, <1>3 DEF InboxInv, WorkTrue
<1> DEFINE verified == IF w.passed THEN "yes" ELSE "no"
           judged(i) == [[i EXCEPT !.verified = verified] EXCEPT !.meta = w.meta]
<1>5. /\ inbox' = [u \in Users |-> inbox'[u]]
      /\ \A u \in Users : u # w.to => inbox'[u] = inbox[u]
      /\ \A j \in inbox'[w.to] :
           \/ j \in inbox[w.to]
           \/ \E i \in inbox[w.to] : i.id = w.id /\ j = judged(i)
  <2> HIDE DEF verified
  <2>1. inbox' = [inbox EXCEPT ![w.to] = { IF i.id # w.id THEN i ELSE judged(i) : i \in @ }]
    BY <1>2, Zenon DEF verified
  <2> HIDE DEF judged
  <2>2. QED
    BY <1>3, <2>1 DEF InboxInv
<1>6. ASSUME NEW i \in inbox[w.to], i.id = w.id
      PROVE  ItemTrue(w.to, judged(i), captured[w.to], arrived)
  <2>1. ItemTrue(w.to, i, captured[w.to], arrived) /\ Entry(w.to, i.id, i.bytes) \in arrived
    BY <1>3 DEF InboxInv, ItemTrue
  <2>2. i.bytes = bytes
    BY <1>4, <1>6, <2>1, EntryOf DEF InboxInv
  <2>3. judged(i) = [id |-> w.id, bytes |-> bytes, meta |-> w.meta, verified |-> verified]
    <3>1. i = [id |-> w.id, bytes |-> bytes, meta |-> i.meta, verified |-> i.verified]
      BY <1>6, <2>1, <2>2 DEF ItemTrue, IsItem
    <3>2. PICK j : j = [id |-> w.id, bytes |-> bytes, meta |-> i.meta, verified |-> verified]
      OBVIOUS
    <3> HIDE DEF verified
    <3>3. [i EXCEPT !.verified = verified] = j
      BY <3>1, <3>2
    <3>4. [j EXCEPT !.meta = w.meta]
            = [id |-> w.id, bytes |-> bytes, meta |-> w.meta, verified |-> verified]
      BY <3>2
    <3>5. QED
      BY <3>3, <3>4, Zenon
  <2>4. PICK j : j = judged(i)
    OBVIOUS
  <2>5. /\ j.id = w.id /\ j.bytes = bytes /\ j.meta = w.meta /\ IsItem(j)
        /\ j.verified = "yes" => w.passed
    BY <2>3, <2>4 DEF IsItem
  <2>6. ItemTrue(w.to, j, captured[w.to], arrived)
    BY <1>4, <2>5 DEF ItemTrue
  <2>7. QED
    BY <2>4, <2>6
<1> HIDE DEF judged
<1>7. ASSUME NEW u \in Users, NEW j \in inbox'[u]
      PROVE  ItemTrue(u, j, captured'[u], arrived')
  <2>1. CASE j \in inbox[u]
    BY <1>2, <2>1 DEF InboxInv
  <2>2. CASE j \notin inbox[u]
    <3>1. u = w.to
      BY <1>5, <1>7, <2>2
    <3>2. PICK i \in inbox[w.to] : i.id = w.id /\ j = judged(i)
      BY <1>5, <1>7, <2>2, <3>1
    <3>3. ItemTrue(w.to, j, captured[w.to], arrived)
      BY <1>6, <3>2
    <3>4. QED
      BY <1>2, <3>1, <3>3
  <2>3. QED
    BY <2>1, <2>2
<1>8. ASSUME NEW g \in Clerks
      PROVE  WorkTrue(work'[g], captured', arrived')
  <2>1. work'[g] = IF g = c THEN NoWork ELSE work[g]
    BY <1>0, <1>2, TurnsOne
  <2>2. QED
    BY <1>2, <2>1, NothingKnown DEF InboxInv
<1>9. QED
  BY <1>2, <1>5, <1>7, <1>8 DEF InboxInv

\* inbox_delete
LEMMA DeleteTrue ==
  ASSUME InboxInv, ShapeInv', KeysInv', KnownInv', Grows, NEW u \in Users, NEW item,
         InboxDelete(u, item)
  PROVE  InboxInv'
<1>1. /\ inbox' = [inbox EXCEPT ![u] = { i \in @ : i.id # item.id }]
      /\ UNCHANGED <<nextItem, arrived, work>> /\ captured' = captured
  BY Zenon DEF InboxDelete, keyVars
<1>2. /\ inbox' = [x \in Users |-> inbox'[x]]
      /\ \A x \in Users : inbox'[x] \subseteq inbox[x]
  BY <1>1 DEF InboxInv
<1>3. QED
  BY <1>1, <1>2 DEF InboxInv

\* The later sections of every handler,
LEMMA InboxLater ==
  ASSUME InboxInv, ShapeInv', KeysInv', KnownInv', Grows, NEW c \in Clerks, LaterStep(c)
  PROVE  InboxInv'
<1>0. ShapeInv
  BY DEF InboxInv
<1>1. PICK w : w = work[c]
  OBVIOUS
<1>2. CASE Judge(c)
  <2>1. (IF w.via \in {"local", "theater"} THEN "reveal" ELSE "push") \in Stages
    BY DEF Stages
  <2>2. (VerifyAgainst(w.bytes, Known(w.to)) = "passed") \in BOOLEAN
    OBVIOUS
  <2>3. IsParcel(w)
    BY <1>0, <1>1, <1>2, JudgeAfter
  <2>4. UNCHANGED <<inbox, nextItem, arrived>> /\ UNCHANGED captured
    BY <1>2, Zenon DEF Judge, keyVars
  <2>5. After(c, IF w.via \in {"local", "theater"} THEN "reveal" ELSE "push",
              VerifyAgainst(w.bytes, Known(w.to)) = "passed", w.meta)
    BY <1>0, <1>1, <1>2, JudgeAfter, Zenon
  <2>6. w.meta \in {w.meta, Shown(w)}
    OBVIOUS
  <2>7. QED
    BY <1>1, <2>1, <2>2, <2>3, <2>4, <2>5, <2>6, StageTrue, Zenon
<1>3. CASE Reveal(c)
  <2>1. (IF w.via \in {"receive", "laptop"} THEN "judge" ELSE "push") \in Stages
    BY DEF Stages
  <2>2. IsParcel(w) /\ w.can \in BOOLEAN
    BY <1>0, <1>1, <1>3, RevealAfter DEF IsParcel
  <2>3. UNCHANGED <<inbox, nextItem, arrived>> /\ UNCHANGED captured
    BY <1>3, Zenon DEF Reveal, keyVars
  <2>4. After(c, IF w.via \in {"receive", "laptop"} THEN "judge" ELSE "push", w.can, Shown(w))
    BY <1>0, <1>1, <1>3, RevealAfter, Zenon
  <2>5. Shown(w) \in {w.meta, Shown(w)}
    OBVIOUS
  <2>6. QED
    BY <1>1, <2>1, <2>2, <2>3, <2>4, <2>5, StageTrue, ZenonT(30)
<1>4. CASE Undeliverable(c)
  <2>1. IsParcel(w) /\ After(c, "refused", w.can, w.meta)
    BY <1>0, <1>1, <1>4, UndeliverableAfter
  <2>2. "refused" \in Stages /\ w.can \in BOOLEAN
    BY <2>1 DEF Stages, IsParcel
  <2>3. UNCHANGED <<inbox, nextItem, arrived>> /\ UNCHANGED captured
    BY <1>4, Zenon DEF Undeliverable, keyVars
  <2>4. w.meta \in {w.meta, Shown(w)}
    OBVIOUS
  <2>5. QED
    BY <1>1, <2>1, <2>2, <2>3, <2>4, StageTrue, Zenon
<1>5. CASE RecordSent(c) \/ RecordDeposit(c) \/ PutBack(c) \/ EndTransfer(c)
  <2>1. Turns(c, NoWork) /\ UNCHANGED <<inbox, nextItem, arrived>>
    BY <1>5, Zenon DEF RecordSent, RecordDeposit, PutBack, EndTransfer, Done, Turns
  <2>2. QED
    BY <2>1, NothingKnown, InboxTurns
<1>6. QED
  BY <1>2, <1>3, <1>4, <1>5, PushTrue, CheckTrue, VerdictTrue DEF LaterStep

\* the first ones,
LEMMA InboxBegin ==
  ASSUME InboxInv, ShapeInv', KeysInv', KnownInv', Grows, NEW c \in Clerks, NEW u \in Users,
         BeginStep(c, u)
  PROVE  InboxInv'
<1>1. ASSUME NEW w, Begin(c, w), UNCHANGED <<inbox, nextItem, arrived>>,
             WorkTrue(w, captured', arrived)
      PROVE  InboxInv'
  <2>1. Turns(c, w)
    BY <1>1, Zenon DEF Begin, Turns
  <2>2. QED
    BY <1>1, <2>1, InboxTurns
<1>2. ASSUME NEW via \in {"local", "laptop", "receive", "theater", "relay"}, NEW by \in Users,
             NEW to \in Users, NEW bytes, NEW code, NEW bad \in BOOLEAN,
             Begin(c, Delivery(via, by, to, bytes, code, bad)), UNCHANGED <<inbox, nextItem, arrived>>
      PROVE  InboxInv'
  BY <1>1, <1>2, DeliveryTrue, Zenon
<1>3. ASSUME NEW k \in Keys, BeginTransfer(c, u, k)
      PROVE  InboxInv'
  <2>1. PICK w : w = [op |-> "transfer", key |-> k]
    OBVIOUS
  <2>2. IsTransfer(w)
    BY <2>1 DEF IsTransfer
  <2>3. Begin(c, w) /\ UNCHANGED <<inbox, nextItem, arrived>>
    BY <1>3, <2>1, Zenon DEF BeginTransfer
  <2>4. QED
    BY <1>1, <2>2, <2>3, NothingKnown
<1>4. ASSUME NEW item \in inbox[u], BeginVerify(c, u, item)
      PROVE  InboxInv'
  <2>1. PICK w : w = [op |-> "check", to |-> u, id |-> item.id, bytes |-> item.bytes]
    OBVIOUS
  <2>2. w.op = "check" /\ w.to = u /\ w.id = item.id /\ w.bytes = item.bytes
    BY <2>1
  <2>3. Begin(c, w) /\ UNCHANGED <<inbox, nextItem, arrived>>
    BY <1>4, <2>1, Zenon DEF BeginVerify
  <2>4. Entry(u, item.id, item.bytes) \in arrived
    BY <1>4 DEF InboxInv, ItemTrue
  <2>5. WorkTrue(w, captured', arrived)
    BY <2>2, <2>4 DEF WorkTrue, IsParcel, IsVerdict, Stages
  <2>6. QED
    BY <1>1, <2>3, <2>5
<1>5. ASSUME NEW bytes \in held, NEW to \in Users, NEW via \in {"local", "laptop"},
             BeginSend(c, u, via, to, bytes)
      PROVE  InboxInv'
  <2>1. Begin(c, Delivery(via, u, to, bytes, 0, FALSE)) /\ UNCHANGED <<inbox, nextItem, arrived>>
    BY <1>5, Zenon DEF BeginSend
  <2>2. FALSE \in BOOLEAN /\ via \in {"local", "laptop", "receive", "theater", "relay"}
    OBVIOUS
  <2>3. QED
    BY <1>2, <2>1, <2>2, Zenon
<1>6. ASSUME NEW bytes \in held, BeginReceive(c, u, bytes)
      PROVE  InboxInv'
  <2>1. Begin(c, Delivery("receive", u, u, bytes, 0, FALSE)) /\ UNCHANGED <<inbox, nextItem, arrived>>
    BY <1>6, Zenon DEF BeginReceive
  <2>2. FALSE \in BOOLEAN /\ "receive" \in {"local", "laptop", "receive", "theater", "relay"}
    OBVIOUS
  <2>3. QED
    BY <1>2, <2>1, <2>2, Zenon
<1>7. ASSUME NEW bytes \in held, NEW mode \in AttackModes, BeginTheater(c, u, bytes, mode)
      PROVE  InboxInv'
  <2>1. PICK bad \in BOOLEAN : bad = (VerifyAgainst(Attacked(bytes, mode), Known(u)) # "passed")
    OBVIOUS
  <2>2. /\ Begin(c, Delivery("theater", u, u, Attacked(bytes, mode), 0, bad))
        /\ UNCHANGED <<inbox, nextItem, arrived>>
    BY <1>7, <2>1, Zenon DEF BeginTheater
  <2>3. "theater" \in {"local", "laptop", "receive", "theater", "relay"}
    OBVIOUS
  <2>4. QED
    BY <1>2, <2>1, <2>2, <2>3, Zenon
<1>8. ASSUME NEW deposit \in mailbox, BeginClaim(c, u, deposit)
      PROVE  InboxInv'
  <2>1. /\ Begin(c, Delivery("relay", u, u, deposit.bytes, deposit.code, FALSE))
        /\ UNCHANGED <<inbox, nextItem, arrived>>
    BY <1>8, Zenon DEF BeginClaim
  <2>2. FALSE \in BOOLEAN /\ "relay" \in {"local", "laptop", "receive", "theater", "relay"}
    OBVIOUS
  <2>3. QED
    BY <1>2, <2>1, <2>2, Zenon
<1>9. ASSUME NEW by, NEW bytes, RelayDeposit(c, by, bytes)
      PROVE  InboxInv'
  <2>1. PICK w : w = [op |-> "parked", by |-> by, bytes |-> bytes, under |-> codes + 1]
    OBVIOUS
  <2>2. IsParked(w)
    BY <2>1 DEF IsParked
  <2>3. Begin(c, w) /\ UNCHANGED <<inbox, nextItem, arrived>>
    BY <1>9, <2>1, Zenon DEF RelayDeposit
  <2>4. QED
    BY <1>1, <2>2, <2>3, NothingKnown
<1>10. QED
  BY <1>3, <1>4, <1>5, <1>6, <1>7, <1>8, <1>9 DEF BeginStep

\* and so every step keeps InboxInv.
LEMMA InboxStep ==
  ASSUME InboxInv, ExchangeNext
  PROVE  InboxInv'
<1>1. profile.clerks \subseteq Clerks /\ ShapeInv /\ KeysInv /\ KnownInv
  BY ExchangeAssumption DEF InboxInv, ShapeInv
<1>2. ShapeInv' /\ KeysInv' /\ KnownInv' /\ (Restart \/ Grows)
  BY <1>1, ShapeStep, KeysStep, KnownStep
<1>3. CASE Restart
  <2>1. /\ inbox' = [u \in Users |-> {}] /\ nextItem' = [u \in Users |-> 0] /\ arrived' = {}
        /\ work' = [c \in Clerks |-> NoWork]
    BY <1>3, Zenon DEF Restart
  <2>2. \A c \in Clerks : WorkTrue(work'[c], captured', arrived')
    BY <2>1, NothingKnown
  <2>3. QED
    BY <1>2, <2>1, <2>2 DEF InboxInv
<1>4. CASE Grows
  <2>1. ASSUME UNCHANGED <<inbox, nextItem, arrived, work>>
        PROVE  InboxInv'
    <3>1. \A c \in Clerks : WorkTrue(work'[c], captured', arrived)
      BY <1>4, <2>1, WorkTrueGrows DEF InboxInv, ShapeInv, Grows
    <3>2. QED
      BY <1>2, <1>4, <2>1, <3>1, InboxRests
  <2>2. ASSUME NEW u \in Users, OwnStep(u)
        PROVE  InboxInv'
    <3>1. UNCHANGED <<inbox, nextItem, arrived, work>> \/ \E item : InboxDelete(u, item)
      BY <2>2, Zenon DEF OwnStep, Login, Capture, DocSeal, OutboxDelete
    <3>2. QED
      BY <1>2, <1>4, <2>1, <3>1, DeleteTrue
  <2>3. ASSUME NEW bytes, OpenStep(bytes)
        PROVE  UNCHANGED <<inbox, nextItem, arrived, work>>
    BY <2>3, Zenon DEF OpenStep, AttackDocument
  <2>4. Restart \/ InboxInv'
    BY <1>1, <1>2, <1>4, <2>1, <2>2, <2>3, InboxBegin, InboxLater, Steps
  <2>5. QED
    BY <1>3, <2>4
<1>5. QED
  BY <1>2, <1>3, <1>4

\* What an inbox says of an item is true of that item, whatever was filed, deleted or
\* distilled between the sections of deliver_local, peer_receive, relay_claim and inbox_verify.
THEOREM InboxAlwaysSpeaksTrue == ExchangeSpec => []InboxSpeaksTrue
<1>1. ASSUME ExchangeInit
      PROVE  InboxInv
  <2>1. /\ session = [u \in Users |-> Fresh] /\ captured = [u \in Users |-> <<>>]
        /\ inbox = [u \in Users |-> {}] /\ nextItem = [u \in Users |-> 0] /\ arrived = {}
        /\ work = [c \in Clerks |-> NoWork]
    BY <1>1, Zenon DEF ExchangeInit
  <2>2. ShapeInv /\ KeysInv
    BY <1>1, KeysInit, ShapeInit
  <2>3. Knows(Fresh, <<>>)
    BY DEF Knows, Fresh, Range
  <2>4. KnownInv
    BY <2>1, <2>3 DEF KnownInv
  <2>5. \A c \in Clerks : WorkTrue(work[c], captured, arrived)
    BY <2>1, NothingKnown
  <2>6. QED
    BY <2>1, <2>2, <2>4, <2>5 DEF InboxInv
<1>2. ASSUME InboxInv, UNCHANGED exchangeVars
      PROVE  InboxInv'
  <2>1. UNCHANGED <<session, captured, inbox, nextItem, arrived, work>>
    BY <1>2 DEF exchangeVars
  <2>2. ShapeInv' /\ KeysInv' /\ KnownInv'
    BY <1>2, <2>1, ShapeStutter DEF InboxInv, KeysInv, KnownInv
  <2>3. QED
    BY <1>2, <2>1, <2>2 DEF InboxInv
<1>3. InboxInv /\ [ExchangeNext]_exchangeVars => InboxInv'
  BY <1>2, InboxStep
<1>4. InboxInv => InboxSpeaksTrue
  BY InboxInvSuffices
<1>5. QED
  BY <1>1, <1>3, <1>4, PTL DEF ExchangeSpec
-----------------------------------------------------------------------------
\* What clients bring along was sealed by somebody.
ArchiveIsGenuine == \A bytes \in Archive : Genuine(bytes)

AttackInv ==
  /\ \A bytes \in held : Genuine(bytes) \/ IsBroken(bytes)
  /\ \A f \in forged : f.bytes = f.from \/ IsBroken(f.bytes)

\* Every step keeps AttackInv: what handlers seal is sealed under a key, and an attack on what is
\* sealed or damaged leaves it as it is or damages it.
LEMMA AttackStep ==
  ASSUME AttackInv, ShapeInv, KeysInv, ExchangeNext
  PROVE  AttackInv'
<1>1. profile.clerks \subseteq Clerks
  BY ExchangeAssumption DEF ShapeInv
<1>2. ASSUME UNCHANGED <<held, forged>>
      PROVE  AttackInv'
  BY <1>2 DEF AttackInv
<1>3. ASSUME NEW file \in Docs, NEW k \in Keys, UNCHANGED forged,
             held' = held \cup {ContainerBytes(SealDocument(file, k), TRUE)}
      PROVE  AttackInv'
  <2>1. Genuine(ContainerBytes(SealDocument(file, k), TRUE))
    BY DEF Genuine
  <2>2. QED
    BY <1>3, <2>1 DEF AttackInv
<1>4. ASSUME NEW bytes \in held, NEW mode \in AttackModes, held' = held \cup {Attacked(bytes, mode)},
             forged' = forged \cup {[from |-> bytes, bytes |-> Attacked(bytes, mode)]}
      PROVE  AttackInv'
  <2>1. PICK made : made = Attacked(bytes, mode)
    OBVIOUS
  <2>2. /\ made = bytes \/ IsBroken(made)
        /\ Genuine(made) \/ IsBroken(made)
    BY <2>1, GenuineBreaks, BrokenStays DEF AttackInv
  <2>3. PICK f : f = [from |-> bytes, bytes |-> made]
    OBVIOUS
  <2>4. f.bytes = made /\ f.from = bytes
    BY <2>3
  <2>5. held' = held \cup {made} /\ forged' = forged \cup {f}
    BY <1>4, <2>1, <2>3
  <2>6. QED
    BY <2>2, <2>4, <2>5 DEF AttackInv
<1>5. ASSUME NEW u \in Users, OwnStep(u)
      PROVE  AttackInv'
  <2>1. ASSUME NEW file \in Docs, DocSeal(u, file)
        PROVE  AttackInv'
    <3>1. session[u].cur \in Keys
      BY <2>1 DEF DocSeal, KeysInv, Remembering, Sessions
    <3>2. QED
      BY <1>3, <2>1, <3>1, Zenon DEF DocSeal
  <2>2. QED
    BY <1>2, <1>5, <2>1, Zenon DEF OwnStep, Login, Capture, InboxDelete, OutboxDelete, keyVars
<1>6. ASSUME NEW bytes \in held, OpenStep(bytes)
      PROVE  AttackInv'
  BY <1>2, <1>4, <1>6, Zenon DEF OpenStep, AttackDocument, keyVars
<1>7. ASSUME NEW c, NEW u, BeginStep(c, u)
      PROVE  AttackInv'
  <2>1. ASSUME NEW bytes \in held, NEW mode \in AttackModes, BeginTheater(c, u, bytes, mode)
        PROVE  AttackInv'
    BY <1>4, <2>1, Zenon DEF BeginTheater
  <2>2. QED
    BY <1>2, <1>7, <2>1, Zenon DEF BeginStep, RelayDeposit, BeginTransfer, BeginSend, BeginReceive,
       BeginVerify, BeginClaim, keyVars
<1>8. ASSUME NEW c \in Clerks, LaterStep(c)
      PROVE  AttackInv'
  <2>1. ASSUME EndTransfer(c)
        PROVE  AttackInv'
    <3>1. work[c].key \in Keys
      BY <2>1, OpOf DEF EndTransfer, Doing, ShapeInv, IsTransfer
    <3>2. QED
      BY <1>3, <2>1, <3>1, Zenon DEF EndTransfer
  <2>2. QED
    BY <1>2, <1>8, <2>1, Zenon DEF LaterStep, Judge, Reveal, Push, Undeliverable, RecordSent,
       RecordDeposit, CheckUnderKeys, RecordVerdict, PutBack, keyVars
<1>9. Restart => AttackInv'
  BY <1>2, Zenon DEF Restart
<1>10. QED
  BY <1>1, <1>5, <1>6, <1>7, <1>8, <1>9, Steps

\* The invariant implies the property.
LEMMA AttackInvSuffices ==
  ASSUME AttackInv
  PROVE  AttacksNeverPass
BY BrokenNever DEF AttackInv, AttacksNeverPass

\* If the containers that clients bring along were sealed by somebody, what attack_document
\* and attack_theater make passes and opens under no keys, unless it is what was attacked, unchanged.
THEOREM AttacksAlwaysFail ==
  ASSUME ArchiveIsGenuine
  PROVE  ExchangeSpec => []AttacksNeverPass
<1> DEFINE Inv == ShapeInv /\ KeysInv /\ AttackInv
<1>1. ExchangeInit => Inv
  <2>1. ExchangeInit => AttackInv
    BY DEF ExchangeInit, AttackInv, ArchiveIsGenuine
  <2>2. QED
    BY <2>1, KeysInit, ShapeInit
<1>2. Inv /\ UNCHANGED exchangeVars => Inv'
  <2>1. KeysInv /\ UNCHANGED exchangeVars => KeysInv'
    BY DEF KeysInv, exchangeVars
  <2>2. AttackInv /\ UNCHANGED exchangeVars => AttackInv'
    BY DEF AttackInv, exchangeVars
  <2>3. QED
    BY <2>1, <2>2, ShapeStutter
<1>3. Inv /\ ExchangeNext => Inv'
  <2>1. ShapeInv => profile.clerks \subseteq Clerks
    BY ExchangeAssumption DEF ShapeInv
  <2>2. QED
    BY <2>1, AttackStep, KeysStep, ShapeStep
<1>4. Inv => AttacksNeverPass
  BY AttackInvSuffices
<1>5. QED
  BY <1>1, <1>2, <1>3, <1>4, PTL DEF ExchangeSpec
=============================================================================
