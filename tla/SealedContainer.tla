--------------------------- MODULE SealedContainer ---------------------------
(***************************************************************************)
(* The `.qsig` container (sealing/src/lib.rs) and the trying of several    *)
(* keys on it (server/src/doc_api.rs), over symbolic cryptography: a       *)
(* ciphertext is a term that opens under its own key and associated data   *)
(* and under nothing else, a tag is a term that equals what was tagged.    *)
(*                                                                         *)
(* A key is what a session distilled; its canonical form has the last byte *)
(* reduced, so two keys may share one.  Fields that nothing binds and      *)
(* nothing reads back (scheme, audit_ref, quorum) are left out.            *)
(***************************************************************************)
EXTENDS Naturals, Sequences, FiniteSets, Functions

CONSTANTS
  Keys,       \* the session keys
  Canonical,  \* canonicalize_key, as a function of the keys
  Docs        \* the files

ASSUME CanonicalAssumption ==
  /\ Canonical \in [Keys -> Keys]
  /\ \A k \in Keys : Canonical[Canonical[k]] = Canonical[k]

NoKey == "no key"
NoFile == "no bytes"

\* No session distils Mallory's key, and no file is what a wrong mask leaves.
ASSUME SentinelAssumption ==
  /\ NoKey \notin Keys /\ "mallory" \notin Keys
  /\ "other bytes" \notin Docs

\* DocumentMeta: the hash of the file, and everything else as one label.
Meta(hash, label) == [hash |-> hash, label |-> label]
HiddenMeta == Meta(NoFile, "sealed")
\* The associated data of an envelope: the magic.
Magic == Meta("QSIG1", "magic")

\* AES-256-GCM; the legacy XOR mask; bytes that are neither.
Gcm(key, plain, aad) == [by |-> "gcm", key |-> key, plain |-> plain, aad |-> aad]
Masked(key, plain) == [by |-> "xor", key |-> key, plain |-> plain]
Noise == [by |-> "noise"]

\* hmac_tag over metadata and file; Mallory's is over the metadata alone.
Hmac(key, meta, file) == [key |-> key, meta |-> meta, file |-> file]
BareHmac(key, meta) == [key |-> key, meta |-> meta]
NoTag == [key |-> NoKey]

\* The plaintext of a decryption, if there is one.
GcmOpen(body, key, aad) ==
  IF body.by = "gcm" /\ body.key = key /\ body.aad = aad THEN {body.plain} ELSE {}

\* keystream, as a mask that is taken off: another key leaves other bytes.
Unmask(body, key) ==
  IF body.by = "xor" /\ body.key = key THEN body.plain ELSE "other bytes"

-----------------------------------------------------------------------------
\* seal_document: a QsigDocument of version 2.
SealDocument(file, secret) ==
  LET key == Canonical[secret]
      meta == Meta(file, "own")
  IN  [v |-> 2, meta |-> meta, body |-> Gcm(key, file, meta), tag |-> Hmac(key, meta, file),
       commit |-> key, key |-> key]

\* A version 1 document of the old code: mask, tag and commitment under the
\* key as it was distilled.
LegacyDocument(file, secret) ==
  LET meta == Meta(file, "own")
  IN  [v |-> 1, meta |-> meta, body |-> Masked(secret, file), tag |-> Hmac(secret, meta, file),
       commit |-> secret, key |-> NoKey]

\* container_bytes_opt; the key itself is never serialized.
ContainerBytes(doc, envelope) ==
  LET json == [doc EXCEPT !.key = NoKey]
  IN  IF envelope /\ doc.key # NoKey
      THEN [magic |-> "QSIG3", commit |-> doc.commit, body |-> Gcm(doc.key, json, Magic)]
      ELSE [magic |-> "QSIG1", doc |-> json]

\* parse_container_full: an envelope becomes a placeholder of version 2.
ParseContainer(bytes) ==
  IF bytes.magic = "QSIG3"
  THEN [sealed |-> TRUE,
        doc |-> [v |-> 2, meta |-> HiddenMeta, body |-> bytes.body, tag |-> NoTag,
                 commit |-> bytes.commit, key |-> NoKey]]
  ELSE [sealed |-> FALSE, doc |-> bytes.doc]

\* unseal_envelope: the document inside, if the key commits and decrypts.
UnsealEnvelope(doc, secret) ==
  IF Canonical[secret] # doc.commit THEN {}
  ELSE { [json EXCEPT !.key = Canonical[secret]] :
           json \in GcmOpen(doc.body, Canonical[secret], Magic) }

\* Mutant: a version 1 document is taken without its tag.
VerifyLegacyUntagged(doc, secret) ==
  LET key == Canonical[secret]
      plain == IF doc.v = 2 THEN GcmOpen(doc.body, key, doc.meta) ELSE {Unmask(doc.body, secret)}
      file == IF plain = {} THEN NoFile ELSE CHOOSE f \in plain : TRUE
  IN  [keyMatch |-> doc.commit = IF doc.v = 2 THEN key ELSE secret,
       authentic |-> doc.v = 1 \/ doc.tag = Hmac(key, doc.meta, file),
       integrity |-> plain # {} /\ file = doc.meta.hash]

\* verify_document: version 1 under the key as distilled, but for the tag.
VerifyDocument(doc, secret) ==
  LET key == Canonical[secret]
      plain == IF doc.v = 2 THEN GcmOpen(doc.body, key, doc.meta) ELSE {Unmask(doc.body, secret)}
      file == IF plain = {} THEN NoFile ELSE CHOOSE f \in plain : TRUE
  IN  [keyMatch |-> doc.commit = IF doc.v = 2 THEN key ELSE secret,
       authentic |-> doc.tag = Hmac(key, doc.meta, file),
       integrity |-> plain # {} /\ file = doc.meta.hash]

\* VerificationOutcome::passed
Passed(outcome) == outcome.keyMatch /\ outcome.authentic /\ outcome.integrity

\* open_document: verified first, then decrypted once more.
OpenDocument(doc, secret) ==
  IF ~Passed(VerifyDocument(doc, secret)) THEN {}
  ELSE IF doc.v = 2 THEN GcmOpen(doc.body, Canonical[secret], doc.meta)
                    ELSE {Unmask(doc.body, secret)}

-----------------------------------------------------------------------------
\* verify_against_workspace: passed under one of the keys; failed, when a key
\* gives a verdict but none passes; or no verdict at all.
VerifyAgainst(bytes, secrets) ==
  LET parsed == ParseContainer(bytes)
      verdicts == { VerifyDocument(doc, k) : doc \in {parsed.doc}, k \in secrets }
      unsealed == UNION { { VerifyDocument(doc, k) : doc \in UnsealEnvelope(parsed.doc, k) } :
                          k \in secrets }
      found == IF parsed.sealed THEN unsealed ELSE verdicts
  IN  IF \E o \in found : Passed(o) THEN "passed"
      ELSE IF found # {} THEN "failed" ELSE "none"

\* unseal_against_workspace: the document, if a key unseals the envelope; a
\* clear container only asks that there is a key.
UnsealAgainst(bytes, secrets) ==
  LET parsed == ParseContainer(bytes)
  IN  IF parsed.sealed THEN UNION { UnsealEnvelope(parsed.doc, k) : k \in secrets }
      ELSE { parsed.doc : k \in secrets }

\* doc_open up to the notary: the file, under whichever key opens it.
OpenAgainst(bytes, secrets) ==
  UNION { OpenDocument(doc, k) : doc \in UnsealAgainst(bytes, secrets), k \in secrets }

\* The four modes of attack_document and attack_theater, on what a parse shows
\* without a key; always re-emitted as a clear container.  Eight flips of one
\* bit at random places may undo each other.
AttackModes == {"tamper_bytes", "flips_cancel", "swap_meta", "reseal", "truncate"}

Attacked(bytes, mode) ==
  LET doc == ParseContainer(bytes).doc
      damaged ==
        CASE mode = "tamper_bytes" -> [doc EXCEPT !.body = Noise]
          [] mode = "flips_cancel" -> doc
          [] mode = "swap_meta"    -> [doc EXCEPT !.meta.label = "swapped"]
          [] mode = "reseal"       -> [doc EXCEPT !.commit = "mallory",
                                                  !.tag = BareHmac("mallory", doc.meta)]
          [] mode = "truncate"     -> [doc EXCEPT !.body = Noise, !.meta.label = "cut"]
  IN  ContainerBytes(damaged, FALSE)
=============================================================================
