# SigniQ: TLA+ models, model checking and proofs

This directory is the verification project of the SigniQ server (`sih26141/` in the repository, a
Rust workspace with a web front end). It holds TLA+ modules translated from the source, TLC
configurations that check them on small instances, and TLAPS proofs of their most important
properties. `PROJECT.json` lists the components, the runs, the mutants, the source lines behind
every definition, the disagreements found and the hazards.

Paths below are relative to `sih26141/`.

## 1. The system

SigniQ seals documents with keys from a simulated quantum exchange, signs them with a
teleportation-based quantum digital signature (QDS), moves them between accounts and laptops, and
records what happened in a hash-chained ledger. One Axum server process holds all state; handlers
run in parallel on a Tokio runtime and share the state through mutexes.

| Component | State | Operations | Talks to |
|---|---|---|---|
| **Audit ledger** `audit/src/lib.rs`, `audit_append` and `audit_clear` in `server/src/doc_api.rs`, reload in `server/src/main.rs` | the log in memory, its index, a JSONL file | append, persist, reset, reload at boot, Merkle root, inclusion proofs | every handler of the document layer |
| **QDS notary** ("Trent") `qds/src/lib.rs`, `qds/src/temporal.rs` | tables, issued and used nonces, clock, hash chain of windows, consumed windows | setup, sign, mint and bind, verify, verify transferability, snapshot, restore | called by the laboratory and by the document layer |
| **QDS server state** `server/src/qds_state.rs`, `qds_api.rs`, `qds_keys.rs`; **consensus ring** `qds/src/consensus.rs` | the notary, the last signature, the replay-state file | setup, sign, verify, attack battery, consensus, sign and verify a document, persist, restart | one lock, `state.qds`, shared with document handlers |
| **Document vault, custody quorum** `server/src/doc_api.rs` | one workspace per account: session key, old keys, split, custody, pledges, last container | derive a key, seal, verify, open, distribute shares, pledge, unlock | notary, ledger, other accounts' workspaces |
| **Inbox, transfers, relay mailbox** `server/src/doc_api.rs` | inboxes, outboxes, deposits by claim code | send, receive, verify, delete, deposit, claim, attack endpoints | other workspaces, other laptops over HTTP |
| **Ring delivery** `server/src/doc_api.rs` | a tally in every copy of a ring's document | send to a ring, attest, gate on open | workspaces of all members, notary |
| **Split and container** `sealing/src/lib.rs` | none | canonical key, split, combine, seal, verify, open, envelope | vault |
| **Accounts** `server/src/auth.rs` | the accounts and their file, failures, tokens | register, log in (with back-off), log out, restart | every handler with a login |
| **Run service** `server/src/main.rs` | last result, broadcast channel, blinded rounds | run BB84, stream events, replay to a subscriber, blinded challenge | vault (the derived secret) |
| **Quantum channel** `quantum/src/lib.rs`, `qds/src/six_state.rs` | none that outlives a call | sift, reconcile; six-state sessions, signatures, classification | run service, laboratory |
| Statistics, privacy amplification, wrappers, front ends | none that outlives a call | numerical passes, presentation | |

What is hard here:

* **Two places for one fact.** The ledger is changed in memory under a mutex and in the file after
  it; the notary is changed in memory, its snapshot is written by some callers and not by others; an
  account is pushed before its file is written. Interleavings, crashes and failed writes fall in
  between.
* **Per-account locks.** A handler that needs two workspaces takes their locks one after the other;
  what it read first may be stale when it writes. This is the shape of the quorum, of the ring, of
  the inbox's verdict and of a claim.
* **Replay.** Windows and nonces must be accepted once, delayed signatures must still be accepted,
  and restarts must neither revive the former nor lose the latter.
* **Delivery.** Replies of another laptop are lost or late; a subscriber of the event stream joins
  late, lags behind or leaves; a client takes its handler with it when it disconnects.
* **Limits.** Eight old keys, a broadcast channel of 1024 events, a table of 100 blinded rounds.
* **Arithmetic at a boundary.** Shares live in GF(251), bytes go to 255; Merkle levels are odd or
  even; sequence numbers come from lengths; a syndrome of three errors looks like one of another.

`PROJECT.json` lists 40 hazards at their lines, with the properties that cover them. Four have none
and say why: custody is one slot per account, and no text says what becomes of the share that is
replaced; a snapshot that could not be written, and a file of accounts that could not be read, leave
nothing to promise; and a ring's gate that finds its item gone lets the open pass.

## 2. Modules

```
DurableLedger                     what the ledger promises (abstract)
AuditLedger                       the log, its file, handlers, crashes, boots; the mapping to
 |                                DurableLedger
 |- AuditTree                     the Merkle tree over AuditLedger's logs
 |- AuditLedgerProofs             theorems of both, the refinement among them
 |- MCAuditLedger                 instances of both
QdsNotary                         the notary as operators on a record
 |- QdsWire                       notaries and a channel that loses and repeats
 |   |- MCQdsWire                 instance         (with other components: MCServices)
 |- QdsServer                     notary + file + laboratory + documents + ring + restarts
     |- QdsServerProofs           theorems
     |- MCQdsServer               instances
QuorumPledge                      split, distribution, pledges, unlock
 |- QuorumPledgeProofs            theorems
 |- MCQuorumPledge, MCCustody     instances
Shamir                            one byte of a split key
 |- ShamirProofs                  theorems
 |- MCShamir, MCCustody           instances
SealedContainer                   containers, tags and envelopes as terms
 |- Exchange                      keys, seals, transfers, inboxes, outboxes, relay, attacks
     |- ExchangeProofs            theorems
RingDelivery                      a document in several inboxes, attestations, the gate
 |- MCRingDelivery                instance         (with Exchange: MCExchange)
DeliveryProofs                    theorems of QdsWire and of RingDelivery
Accounts                          registration, file, back-off, sessions
RunStream                         runs, broadcast channel, stored result, viewers
BlindChallenge                    blinded rounds and their table
LockOrder                         which request takes which locks in which order
 |- ServiceProofs                 theorems of these four
QuantumKey                        sifting and reconciliation of a raw key
SixState                          six-state sessions, signatures, verdicts
 |- QuantumProofs                 theorems of these two
MCServices                        instance of the last six and of QdsWire
```

An MC module holds model values, bounds, symmetry and the INSTANCE of a refinement. `MCServices`,
`MCExchange` and `MCCustody` each hold several components that share no state: a variable `part`,
fixed in the initial state, says which one a behaviour is of, so that the state spaces are added and
not multiplied. A definition whose comment starts with "Mutant:" is a plausible bug put beside the
code's definition, to show that the property named in `PROJECT.json` notices it; nothing uses it.

### AuditLedger, DurableLedger, AuditTree

`mem` is `AuditLog.entries`. The file is what `load_jsonl` can read of it: `whole`, the entries of
terminated lines, and `tail`, what follows the last newline. Two entries in one line are not JSON
and are skipped at a reload. A leaf hash is the sequence of what was hashed into it, a
collision-free hash chain. `pc[t]` is where a handler stands:

| Action | Code |
|---|---|
| `AppendInMemory` | the critical section of `audit_append`: number, chain and push |
| `WriteLine`, `WriteNewline` | `append_persist`: `write_all` of the JSON, then of the newline |
| `PersistFails` | its error path: the entry stays in memory, the caller gets a warning |
| `ClearInMemory`, `Truncate` | `audit_clear`: a new log with the genesis entry, then the file |
| `Crash`, `Boot`, `BootUnreadable` | the process stops; `main` reloads, or starts empty when the file cannot be read |

Two auxiliary variables say what has befallen the file since it was last emptied: `lagging`, that a
write has failed, and `mishaps`, which of four things happened that the code does not prevent. An
entry was written onto a line without a newline yet (*glued*), before an entry with a lower number
(*overtaken*), after a failed write (*gap*), or a reset met another handler (*raced*).

`DurableLedger` is the promise: one append-only log, a growing durable prefix, a reset that discards
it, a restart from it. `Abstract` in `AuditLedger` maps `log` to the log in memory (to what would be
reloaded while the process is down), `durable` to what is readable, and `tidy` to the absence of
mishaps: the log is answered for always, the prefix while it is tidy, and a reset makes it tidy
again.

`AuditTree` computes roots and proofs from the logs that `AuditLedger` reaches, with the code's two
ways of building a proof: `inclusion_proof` for a sequence number through the index, and
`inclusion_proofs` for an export, level by level. The loops are recursive functions of the number of
rounds, which the provers can unfold.

### QdsNotary, QdsWire, QdsServer

A notary is a record of the fields of `Trent` that decide verdicts. A key stands for the two
correlation tables; correction bits are a pair of message and key, so the measurement statistics
match exactly when both are the claimed ones. That is tolerance 0 without a lucky guess. Bell
outcomes (entropy) are a small set, because the caller may fix the generator's seed. `Accepts` has
the checks of `verify` in order: nonce, structure of the binding (`trap_check`), locally minted
window, horizon, statistics, then `Accepted` consumes window and nonce.

`QdsWire` lets notaries of one seed sign, re-bind received bits, and verify anything ever sent, any
number of times, in any order, with any claim. `QdsServer` adds the snapshot file, the ways
`TRENT_SEED` can be set (a number, unset, garbled: a garbled one is restored from the file but draws
fresh tables), parameter sets, the laboratory endpoints, sealed documents and restarts. Each
endpoint holds `state.qds` and is one step; the attack battery takes the lock twice and is two
(`ReadLast`, `RunBattery`).

The consensus ring has its members re-verify the signature on file, over copies (`MemberCopy`) that
a noisy link may have disturbed and that are re-bound at the frontier under the old nonce; it leaves
the notary as it is. A link is without noise, or its noise spares every bit, or flips a share of
them within the tolerance of the request (0.10 when not given), or more. `MemberVerdict` is
`verify_transferability` at that tolerance: "ACC1" without a mismatch, "ACC0" up to the tolerance.
The ring has two gates: `QuorumOk` (to unlock) counts both, `TransferGrade` (to forward) counts
"ACC1" only. The endpoint disturbs at most one member's link; the model lets any of them be
disturbed, as `run_ring` does with a noise floor. It reads the last signature under an earlier
acquisition of the lock than the one it runs under; the signature the ring is asked about is that of
the present notary (one that a setup has replaced is refused for its key). `verify` itself is
modelled at tolerance 0, as all its callers in the server have it.

### QuorumPledge

Accounts, sealants and handlers. A share is its split and its x: its commitment hashes its bytes, so
shares of different splits differ. `custody` and `pending` are the two fields of a workspace;
`job[h]` is what a handler carries from one lock section to the next.

| Action | Code |
|---|---|
| `DeriveKey` | `qds_derive_key`, `set_secret` |
| `SealWithQuorum` | `doc_seal` with `use_quorum`: new split on record, pledges cleared |
| `BeginDistribute`, `HandOver`, `EndDistribute` | `quorum_distribute`: shares on record; one custody slot after the other; pledges cleared |
| `BeginPledge`, `EndPledge` | `quorum_pledge`: the holder's workspace, then the sealant's |
| `BeginUnlock`, `VerifyPledged` | `quorum_unlock` without shares: recognise the pledges; fetch a container, unseal it if it is an envelope, verify it |
| `BeginPresent`, `VerifyPresented` | `quorum_unlock` with shares in the request: recognise them; parse a container and verify it; an envelope is never unsealed here |
| `EndUnlock` | its end: a passed unlock clears the pledges it consumed |

`calm` is a history variable: no other request has run beside a distribution so far.

### Shamir

The bytes of a key are split independently, so the module follows one, either the last, which
`canonicalize_key` reduces, or another, which it does not: a random polynomial (`Rows`), Horner's
rule (`Eval`), Fermat inverses by squaring (`GfInv`, a row of the table `Power`), Lagrange at 0
(`Combine`), in 16-bit arithmetic that wraps as in a release build.

### SealedContainer, Exchange

Cryptography is symbolic: a ciphertext opens under its own key and associated data, a tag equals
what was tagged. All three container formats (version 1 with its mask, version 2, the envelope of
version 3) are terms, `ParseContainer`, `VerifyDocument`, `OpenDocument` and the loops over an
account's keys (`VerifyAgainst`, `UnsealAgainst`, `OpenAgainst`) are operators on them, and
`Attacked` is what the attack endpoints make. "Eight random flips" may undo one another, hence the
mode `flips_cancel`.

`Exchange` is the rest of a workspace. `work[c]` is what a handler carries between lock sections:

| Action | Code |
|---|---|
| `Login`, `Capture`, `DocSeal` | a workspace; `set_secret` with the history of keys; `doc_seal` |
| `BeginTransfer`, `EndTransfer` | a session handed to another account, in two workspaces |
| `BeginSend`, `BeginReceive`, `Judge`, `Reveal`, `Push`, `Undeliverable`, `RecordSent` | `peer_send`, `deliver_local`, `peer_receive`: verdict, metadata, filing and record, a lock section each; the reply of a laptop can be lost or late |
| `BeginVerify`, `CheckUnderKeys`, `RecordVerdict` | `inbox_verify`: the container, the keys, the verdict written back by number |
| `InboxDelete`, `OutboxDelete` | deletions |
| `RelayDeposit`, `RecordDeposit` | `relay_deposit`: the mailbox, then the outbox of a depositor that is logged in |
| `BeginClaim`, `PutBack` | `relay_claim`, which takes a deposit out and may put it back |
| `AttackDocument`, `BeginTheater` | `attack_document`, `attack_theater` |
| `Restart` | workspaces and mailbox are lost, containers in clients' hands are not |

### RingDelivery

`ring_send` visits the members in turn and then writes the sender's record (`BeginRing`,
`DeliverCopy`, `RecordRing`), `ring_attest` reads the attester's item, verifies without a lock and
visits the members again (`BeginAttest`, `VerifyCopy`, `RecordAttestation`), an open by inbox number
reads its item twice (`BeginOpen`, `Gate`). Items have the number their own workspace gave them, and
attestations find their copies by that number.

Any other delivery is `PlainArrives`. `peer_receive` files the demand that came with the request as
it is, for an account the request may name without a login: any `k`, any members, any tally. Such
items are in the model (`Specs`), with the length of the tally they came with as history (`given`),
and they can be attested and opened like others; what the ring's properties say counts from there.

### Accounts, RunStream, BlindChallenge

`Accounts` splits a registration at the rename of its file and a login at its three locks.
`RunStream` has the blocking task (`Measure`, `Conclude`), its handler (`Store`, `Announce`), which
is dropped with its client (`ClientLeaves`), and viewers that join the channel, then read the stored
result, then the channel; a viewer further behind than `Capacity` is told so. One progress event
stands for all of a scenario. `BlindChallenge` reads the clock before the lock, evicts and files
under it, takes a round out under it and answers after it.

### QuantumKey, SixState

Of the two raw keys `QuantumKey` keeps the positions at which they differ: parities are only
compared and syndromes only added, so nothing else can matter. Draws and shuffles are choices.
Hamming blocks, the bisection with its stack, and the schedule of passes are as in
`reconcile_with_block`. `SixState` has pulses, sets of two states, conclusive outcomes, both
parties' strings, and `verify_six_state` with `classify`.

### LockOrder

A request is the script of its locks, held or passed through; two threads run any two requests of
two accounts each. The lock of the map of workspaces is only ever passed through; `attack_theater`
and `doc_seal` hold a workspace while they lock the notary or the ledger.

## 3. Runs

Every passing run is complete for its bounds. `CHECK_DEADLOCK FALSE` stands in all of them because
each behaviour ends at a bound; that no request waits for ever on a lock is a property of its own
(`EveryRequestIsAnswered`).

| Run | Instance | Checks | Distinct states |
|---|---|---|---|
| `MCAuditLedger_full` | 2 handlers, 4 events, 1 reset, 1 failed write, 2 crashes at any point | `TypeOK ChainIntact DiskAgrees AckedSurvives OrderlyReload ExportVerifies AppendOnly IsDurableLedger` | 112,156 |
| `MCAuditLedger_serial` | 1 handler, 9 events, 1 reset, 3 crashes except between line and newline | `RootPinsHistory` | 9,796 |
| `MCAuditLedger_parallel` | 2 handlers, 3 events, no fault | `ReloadIntact` **violated** | finding 1 |
| `MCQdsWire_foreign` | 2 notaries of a seed | `NextSessionAccepted` **violated** | finding 2 |
| `MCQdsServer_trap` | 1 laptop, every seeding, 2 parameter sets, 3 windows, 1 setup or restart; rings of 2 with every kind of link, any k | `NextSessionAccepted RingVerdictExact SpentSignaturesStayDead CoveredDocumentsOpen` | 59,028 |
| `MCQdsServer_restart` | a fixed seed, 1 restart | `DocumentsOpen` **violated** | finding 3 |
| `MCCustody_pass` | 2 accounts that both seal, 2 handlers, 2 keys, 2 splits, 2-of-2; all of GF(7), bytes 0 to 8, 2-of-3, 3-of-3, 3-of-4 | `TypeOK VerdictExact OfficersDistinct QuorumRestores SharesHideByte` | 2,153,548 |
| `MCQuorumPledge_kept` | 1 handler at a time, 3 accounts | `PledgeKept` **violated** | finding 4 |
| `MCShamir_edges` | GF(251), bytes and coefficients at its edges | `QuorumAlwaysRestores` **violated** | finding 5 |
| `MCExchange_pass` | 2 accounts, 3 keys, 8 profiles of clients, 1 or 2 handlers, 1 restart; 2 accounts in 1 ring, 2 handlers, 1 other item with or without a demand of its own | `InboxSpeaksTrue RecentKeysOpen AttacksNeverPass RelayConserved OutboxSpeaksTrue TallyCountsAcceptances SharedWhereAligned OpenedByQuorum` | 1,450,094 |
| `MCRingDelivery_tally` | 3 accounts, 2 rings, 1 handler at a time | `TallyIsOfThisDocument` **violated** | finding 6 |
| `MCServices_pass` | 1 notary, 2 messages, 4 windows; 2 names, 2 logins at once, 1 restart; 2 runs, 1 viewer; 9 raw bits; 4 blinded rounds; 2 pulses a message; 2 threads with any 2 requests | `AcceptedOnce DelayedStillAccepted AccountsSurvive SessionsHaveAccounts BackoffHolds LateViewerCatchesUp DoneAfterResults EndIsHeardOf ErrorsAccounted BlocksSettled YoungRoundsStay RevealedOnce VerdictsFollowDamage EveryRequestIsAnswered` | 379,552 |

Why these bounds.

* *Ledger*: the disorder needs two handlers and two lines; two crashes give a log that was reloaded,
  extended and reloaded; the reset and the failed write meet both. Five leaves make levels of 5, 3,
  2 and 1, odd and even at different heights; the serial run goes on to nine. Each of the four
  mishaps is reached, and so are crashes, failed writes and resets without any.
* *Notary*: with a horizon of 2 and four windows a signature is fresh, late and expired; five nonces
  leave one for a re-binding of every signature. *Server*: one notary after the first is a restart
  or a new setup, with the same or other parameters, with a file that covers all, some or none of
  the chain; a ring of two is asked for any quorum, also for more than it has, and each of its
  links is one of the four kinds; the theorem has rings of any size.
* *Quorum*: two splits are an old and a new one, also of the same key; a pledge, a distribution and
  an unlock meet pairwise in two handlers; two sealants overwrite each other's custody. *Field*: the
  code is the same for any prime, and GF(7) is small enough to enumerate every polynomial; no
  product reaches 2^16 there, so the width only matters in `MCShamir_edges`, which stops at its
  counterexample.
* *Exchange*: the clients of a behaviour follow one of eight profiles, each with the requests that
  meet in one property, two handlers where they race for an item or a deposit. The history of keys
  holds one old key, so that three keys drop one; two of the three share a canonical form. *Ring*:
  two handlers, a ring of two and one that names an account twice, one item of another delivery to
  put the numbers of two inboxes out of step. That item has no demand, or one for three acceptances
  with two names in its tally, of which one is missing. The ring's handlers are interchangeable,
  hence their symmetry; those of the exchange belong to profiles and have none.
* *Accounts*: two names, two logins at once, one restart, three failures before the back-off is
  over, one more than there are threads. *Runs*: a channel of two events and six to send, so that a
  viewer lags; a run in progress beside a stored one. *Blinded rounds*: a table of two and four
  rounds, a lifetime of two ticks. *Raw key*: nine positions are a Hamming block and a tail of two;
  two shuffles and up to eight passes. *Six-state*: two pulses of each message give strings of none,
  one and two. *Locks*: two threads and two accounts; a cycle of two locks needs no more, and no
  request holds two workspaces.

**Fairness.** Two properties are about progress, and each has the weakest fairness the code gives.
`RunFairness`: a task that started runs on, as does the handler that waits for it (`tokio` polls a
task that is ready, and the blocking task never waits for anything), and a stream is polled while
its client is there. It does *not* ask that clients stay, that runs begin or that viewers come.
`LockFairness`: a thread whose next lock is free takes it in the end; weak fairness is enough
because the other threads have one request each. Handlers in the other modules have none: nothing
there retries, polls or waits for another actor, and their properties are safety properties.

### What the violated runs show

1. *Ledger lines out of order* (`ReloadIntact`). `audit_append` writes the file outside the mutex;
   two appends can land in reverse. The file was altered by nobody, yet the next boot reports it as
   such. `DiskAgrees` shows what still holds: each entry of the file is the one in memory with that
   number. `OrderlyReload` shows what else it takes: without one of four mishaps, of which this is
   one, every reload finds an intact chain.
2. *A foreign acceptance spends an own window* (`NextSessionAccepted`). `verify` takes a foreign
   signature of the same seed, consumes its window and nonce, and the notary's own next signature
   carries them again.
3. *A sealed document is not covered by the snapshot* (`DocumentsOpen`). Sealing mints a link and
   does not persist it: after a restart, before any laboratory request that persists, the document
   does not open. `CoveredDocumentsOpen` is what does hold.
4. *A stale pledge blocks a fresh one* (`PledgeKept`). Pledges are told apart by x alone. A holder
   of an older split who is not named again keeps that share; when this holder pledges it after a
   new distribution, the new holder of that x is told "pledged" and its share is dropped. Every
   later unlock is rejected until the sealant seals or distributes again.
5. *Bytes of 251 and more* (`QuorumAlwaysRestores`). Only the last byte of a key is reduced, all are
   split over GF(251). A key with such a byte among the other 31 (1 - (251/256)^31, 46 % of keys)
   never comes back. In `QuorumPledge` these are the keys outside `Exact`.
6. *An attestation lands on another document* (`TallyIsOfThisDocument`). `ring_attest` finds the
   copies by the number of the attester's own item, but every workspace counts its own. As soon as
   one member got anything else before, an attestation is pushed onto whatever ring's copy has that
   number. `TallyCountsAcceptances`, `OpenedByQuorum` and `SharedWhereAligned` show what still
   holds.

Other disagreements met while modelling and kept here as notes. A reset that races with an append
leaves a file that does not start with the genesis entry. After a reload with a gap, a number is
used twice and the proof endpoint answers for the later entry (`ExportVerifies` therefore compares
the two only while the chain is intact). Two appends can interleave their two writes into one line
that a reload skips. A torn last line swallows the next entry. A portable or document signature is
refused on a second laptop of the same seed, which has not minted its link. After a restart a
document's signature, sealed since the last snapshot, can be accepted once more by `verify` (hence
the condition `boots = 0` in `SpentSignaturesStayDead`). Without `calm`, a distribution racing with
a pledge lets one account supply both pledges of a 2-of-2 unlock. An unlock with shares in the
request never passes for an envelope (`doc_api.rs:1085`), although the comment at
`doc_api.rs:944-946` says that envelopes must be unsealed before the verification: `VerdictExact`
says so. Only the first `qubit_count` bits of a message's hash are signed
(`qds/src/lib.rs:490-495`); `CoveredDocumentsOpen` speaks of contents that differ in those.

In the document exchange: the tag of a version 1 container is made under the key as distilled and
checked under the canonical one, so one sealed under a key with a last byte of 251 or more never
verifies. The gate of a ring's copy is passed when its item is deleted between the two sections of
an open, or when the container is carried in the request. A name that stands twice in a ring counts
twice toward its size and once toward its tally. `peer_receive` takes the ring it files from the
request, with the tally in it: `OpenedByQuorum` therefore counts what was in the tally at arrival
apart from acceptances. `relay_deposit` writes "delivered" into the outbox when nobody has claimed
the deposit yet (`doc_api.rs:3364`; the field's comment at `doc_api.rs:185` says "whether delivery
was accepted by the destination"), and whoever has the code may claim it, also another account than
the record names: `OutboxSpeaksTrue` says of such a record what is true of it, that the very
container waits, is being claimed or was filed. `ring_send` writes "delivered" when it reached one
member. A custody slot is overwritten without a word.

In the run service: a run whose client disconnects sends its results and neither stores them nor
sends Done (hence the last line of `EndIsHeardOf`). A viewer that joins after a run's last result
and before its Done reads a Done without its results (hence "joined before the run sent anything" in
`DoneAfterResults`). With relay hops or with seed 0 a run cannot be repeated from its seed.

In the quantum layer: the comment at `quantum/src/relay.rs:84-88` says that link 0 is compared with
Alice's original, but it has nothing to be compared with and its errors are not counted; qubits that
survived are only counted on the last link. The bit that tells whether a Hamming block was improved
is not counted as leaked. A key is distilled also when errors remain after the last pass. The
comment on `conclusive_bit` (`qds/src/six_state.rs:155-164`) gives two meanings to an orthogonal
outcome; `ConclusiveBit` follows the code. A six-state string with nothing to compare is accepted
for good, as an empty comparison has rate 0 - also when the other message gave material.

## 4. Proofs

All theorems are checked by TLAPS for every value of the constants: any number of handlers,
accounts, notaries or viewers, any bounds, any horizon, threshold or capacity. They rest on the
modules' named assumptions only (`LedgerAssumption`, `NotaryAssumption`, `ServerAssumption`,
`QuorumAssumption`, `RingAssumption`, `ExchangeAssumption`, `CanonicalAssumption`,
`SentinelAssumption`, `AccountsAssumption`, `RunAssumption`, `BlindAssumption`,
`QuantumKeyAssumption`, `SixStateAssumption`, `ShamirAssumption`, `LockAssumption`), which TLC
evaluates in the runs. Three of these say that a name of the model is none of its data: `"noise"`,
`"few"` and `"many"` are no messages (`ServerAssumption`), the markers for "no key", Mallory's key
and the bytes under a wrong mask are no key and no file (`SentinelAssumption`), and no account is
called like one of the server's own locks (`LockAssumption`). `ShamirAssumption` is what
`sealing/src/lib.rs` has: the modulus is a prime between 3 and 255 (251 there), keys hold bytes,
coefficients are below the modulus, a threshold is 2 to 15, and shares are at least as many, at most
15 and fewer than the modulus. A theorem that needs more names it as a hypothesis:

| Hypothesis | Theorems | Why |
|---|---|---|
| `PersistMayFail = FALSE` | `NextSessionAlwaysAccepted`, `SpentSignaturesAlwaysDead` | a failed write of the snapshot is dropped silently, so a restart goes back in time |
| `OneLaptop`: one notary holds the seed | `DelayedAlwaysAccepted`, `NextSessionOfOneLaptop` | finding 2 shows it |
| `Coefs = 0..(P - 1)`: any coefficient may be drawn | `SharesAlwaysHideByte` | `split_secret` draws from `gen_range(0..GF_P)`; what the shares hide is what the generator may draw, as the mutant `RowsNonzero` shows |
| `ArchiveIsGenuine`: what clients bring along was sealed by somebody | `AttacksAlwaysFail` | the property is about what the attack endpoints make of a real container; the archive of the run `MCExchange_pass` is genuine |

Hardly an invariant below is inductive as its run states it; each part says what had to be added.

**AuditLedgerProofs.** `TypeCorrect`, `ChainAlwaysIntact`, `DiskAlwaysAgrees`, `LedgerIsAppendOnly`:
for any number of handlers, any bounds and any crash points. For `DiskAgrees`, the next line to be
written is not in the file yet. The inductive invariant adds `InFlightAgrees` (what a handler still
has to write is in the log in memory, while the log has come from the file) and `DownIsIdle` (no
handler outlives its process). One lemma per fact about sequences (appending keeps a chain, keeps
old entries), then one step per action. `AckedAlwaysSurvives`, `ReloadOrderly` and
`ImplementsDurableLedger` hold for any number of handlers and whatever fails. `FileInv` says what
the mishaps leave: acknowledged entries are read back unless a line was glued or a reset raced
(`AckedRead`); without a mishap the file's chain holds (`ChainsHold`) and what it lacks of the log
is, until a write fails, exactly what the handlers still have to write (`FilePending`); a line
without its newline is that of the one handler about to end it (`LinesApart`), and a reset that
raced with nobody is alone (`ResetAlone`). With it
every action is a step of `DurableLedger` or changes nothing of what the mapping shows.
`RootAlwaysPinsHistory`: two prefixes of different lengths have different roots, although the code
duplicates the last node of an odd level, which in general lets two lists share a root. It holds
because of the ledger, not of the tree: `HistoryInv` says that an event is in the log at most once
and in the file at most once, whatever is cut off or fails, so the nodes of a level are all
different, the last two children of a node are equal exactly when one was duplicated, a level
determines the one below it, and the hash of a leaf is none of a node. `ExportAlwaysVerifies`:
hashing a leaf with its proof's siblings climbs through the very nodes of the levels
(`inclusion_proofs` keeps the node's place as it halves), and both ways of building a proof give the
same siblings. All of it is by induction on the rounds.

The library's induction theorems take an operator, which these provers cannot instantiate.
`SetInduction`, proved here from well-founded finite subsets, does the same for a *set* of numbers
that has 0 and with every number the next one; every induction over data below is an instance.

**QdsServerProofs.** `NextSessionAlwaysAccepted`: the next session of every notary passes its own
verification, after any sequence of sessions, documents, batteries, setups and restarts. The
invariant says, laptop by laptop (`Fits`), that the notary is `Sound` (what it has consumed and used
lies behind its clock and its nonce counter), that the file is of the same kind (`FileFits`), and of
each signature that `last` or a running battery still holds that it lies behind the counters of a
notary with its key and, with a fixed seed, behind those of the file too (`Remembers`). Without the
last part a battery could make a notary that was replaced between its two sections consume a window
of its own future. `CoveredDocumentsAlwaysOpen` and `RingAlwaysExact` hold whether or not snapshots
are written, the latter for rings of any size and both gates, from `LinkInv`: a laptop's last
signature is in the chain of the running notary, a
sealed document is `Kept` (in the chain unless a pinned seed brought its key back without its link),
and what a pinned file knows the notary knows. `Later` and its transitivity carry a link over every
step of the notary. `SpentSignaturesAlwaysDead` needs both invariants and `Buried`: a spent
signature's window is consumed in a notary that has its key and, with a pinned seed, in the file it
will be restored from.

**DeliveryProofs.** *Wire*: `NothingAcceptedTwice` for any number of notaries;
`DelayedAlwaysAccepted` and `NextSessionOfOneLaptop` for one. `WireInv` ties together what the code
keeps apart: what was sent lies behind the counters of its maker and its link is in the maker's
chain (`SentSound`), the registries of a notary hold exactly what it accepted (`RegistriesMatch`),
all of which was sent (`AcceptedWasSent`), and a notary binds a nonce to one window
(`NonceBindsWindow`): without the last one a re-bound signature could consume the nonce of a delayed
one.

*Ring*: `TallyAlwaysCountsAcceptances` and `AlwaysOpenedByQuorum`, with any demands of clients: the
invariant `RingInv` adds what a handler carries from its verification to the members it has not
visited yet (`JobSound`: if it is to record, then its member had accepted). What was added to a
tally since its copy arrived has no duplicates and names members that accepted, so it is no longer
than the set of those who did (`TallyIsCount`, by an injection), and as acceptances are only added,
what an opening counted stays counted (`AcceptancesStay`). `AlwaysSharedWhereAligned`: `SharedInv`
says of an acceptance that every aligned copy has been told of it, or that a handler is still
telling and only the members on its list have not (`Spread`). A document is delivered by one handler
(`OneDelivery`), and all who know its members know the same list (`OneList`), so that no copy comes
after an attestation that saw the delivery complete. It speaks of documents of `ring_send` (`Ripe`),
since a list that a client made up may be any.

**QuorumPledgeProofs.** `TypeCorrect` and `VerdictAlwaysExact`: the verdict of an unlock is exact.
The invariant `EInv` says that the split on record was made (`OnRecord`) and, of each handler
between two sections of an unlock on either way, that what it has recognized are at least
`Threshold` shares of one split (`OneSplit`); `SplitsGrow` then carries the verdict over every later
step. `CombinedExact` is the lemma on combining, `PresentedCount` the one on counting shares by
their numbers. `OfficersAlwaysDistinct`: pledges are distinct in x, not in officer. While
distributions run alone, `OfficersInv` keeps that custody is one slot (`OneSlot`) and that an
account's claims to a split - in its custody, pending at the sealant, on their way there - are all
the same share (`Agree`), so that as many shares are as many accounts.

**ExchangeProofs.** All five invariants of `Exchange`. They share `ShapeInv` (what a handler carries
has the fields of its stage) and the lemmas on a step: it starts a handler, moves one on, ends one,
or leaves them alone (`WorkTurns`), and each of the five looks at the few actions that touch its
state. `OutboxAlwaysSpeaksTrue`: `FiledInv` adds that a handler which reports a delivery has filed
one; only `Push` brings a handler there. `DepositInv` follows a deposit by its code and its
container, from the mailbox through a claim, which may put it back, into an inbox; of a restart it
asks nothing, which takes the records along. `RelayAlwaysConserved`: `RelayInv` says that a code is
at least and at most at one place, which is what the sum of three cardinalities in the property
amounts to (`OnePlace`), and that no two claims have the same code in their hands.
`RecentKeysAlwaysOpen`: `Remembering` says that a session holds the last keys captured, newest last,
up to the limit; the lemma `SealedOpens` that a container opens under any keys that have its own,
and gives its own file and nothing else, whatever the other keys make of it.
`InboxAlwaysSpeaksTrue`: `InboxInv` says of what a handler carries between its sections (`WorkTrue`)
what the property says of items, and that a number given to an item is never given again: so a
verdict that is written back by number reaches the container that was judged. `AttacksAlwaysFail`:
whatever clients hold is `Genuine` or `IsBroken` (a term under which no key passes and none opens),
and an attack on either gives itself or a broken one.

**ServiceProofs.** *Accounts*: `AccountsAlwaysSurvive`, `SessionsAlwaysHaveAccounts`,
`BackoffAlwaysHolds`. `AccountsInv` says of a file that is written and not yet renamed that it has
the store's names (`WrittenIsStore`); of a login that is to be granted, that its name is in the
store (`GrantsHaveAccounts`); and that the failed logins of a name and those still past the back-off
are together no more than there are threads (`FailuresToCome`). *Blinded rounds*:
`RevealedAtMostOnce` and `YoungRoundsAlwaysStay`, for a table of any size. A round is in the table
or in one handler's hands (`OnePlace`), as it was filed (`RoundsRecorded`), and not dated in the
future (`DatesPast`); the one that is evicted was one of the oldest of a full table, so the others
in it are those that the property counts. *Runs*: `LateViewerAlwaysCatchesUp` and
`DoneAlwaysAfterResults`, for a channel of any capacity. `RunInv` says which events of a run stand
in the channel at each of its stages and in which order (`Ordered`), and that a viewer which lost
nothing has an exact copy of the channel from the point where it joined, behind at most one replayed
result (`Transcript`). *Locks*: `LocksNeverDeadlock`, for any threads, accounts and requests that
run together. `LocksInv` says that what a thread holds is what the rest of its script gives back;
from there, each lock a thread asks for ranks above all it holds (`Rank`: a workspace, then the
laboratory's state, then the notary, then the ledger and the reports; the rest is held alone). So
the thread that waits for the highest-ranked lock waits for one whose holder waits for nothing
(`WaitsForHigher`): nobody waits in a circle.

**QuantumProofs.** `ErrorsAlwaysAccounted`, for keys of any length and any shuffles. It needs that
nothing is bisected while bits are sifted (`SiftingFirst`), and that what a syndrome names is wrong
when the block has one error (`SyndromePlace`). `VerdictsAlwaysFollowDamage`, for any number of
pulses and any thresholds: every conclusive round has the two bits differ exactly when it was
struck, whichever of the states, sets and outcomes it was. `BlocksStaySettled`, for keys of any
length, any shuffles and any opening block: of the blocks a pass is done with (`SettledBefore`) none
is left with one error in a Hamming pass, or an odd number in a bisecting one, to the end of the
pass. `KeyInv` adds what the stack holds while a block is bisected (`Bisecting`): a segment as odd
as the whole block, and perhaps a second one that is even, so that each round keeps the parity and
the last one, of a single position, corrects it.

**ShamirProofs.** `QuorumAlwaysRestoresByte` and `SharesAlwaysHideByte`, for every prime up to 255,
every threshold and every polynomial, with the code's own computation: Horner's rule, squaring for
inverses, products and sums in 16 bits. The argument has four layers. (1) Congruence modulo `P`
(`Cong`): it respects sums and products, and no 16-bit product of two elements overflows, so that
each `U16(..) % P` is congruent to what it stands for. (2) `P` is prime, so a product that is 0 has
a factor that is 0, every other element has an inverse (the least residue among its multiples
divides `P`), and the power `P - 2` that `gf_inv` computes is that inverse (Fermat, by the product
of all elements). (3) The folds of `Eval` and `Combine` are chains of partial results (`Horner`, and
likewise for products and sums over shares); the order in which shares are folded does not matter.
(4) Divided differences: they are 0 for a polynomial with fewer coefficients than there are points,
which is what makes `Combine` restore the byte; and any values at `k - 1` points other than 0 come
from a polynomial with a chosen value at 0, which is what hides it. The invariant of the split,
`SharesInv`, says that the shares are those of one polynomial whose first coefficient is the byte.

**What stays with TLC.**

* Liveness: `EndIsHeardOf` and `EveryRequestIsAnswered`; the prover does not reason about fairness.
  The safety half of the second is the theorem `LocksNeverDeadlock`.
* The properties that a run refutes (`PledgeKept`, `TallyIsOfThisDocument` and the others of section
  3), of course.

## 5. Plan

Finished items are marked.

1. [done] Ledger, its file, its tree; theorems of the ledger.
2. [done] Notary, wire, server; theorems of the wire and the server.
3. [done] Quorum and field; theorems of both.
4. [done] Ring delivery, inbox, outbox, relay mailbox, vault keys and containers; theorems of the
   ring and of the exchange.
5. [done] Accounts, runs and their stream, blinded rounds; theorems of all three.
6. [done] Locks of all requests; liveness of runs and locks under fairness.
7. [done] Reconciliation, six-state signatures, consensus ring; theorems of all three.
8. [done] Every invariant and action property that a passing run checks is a theorem for all values
   of the constants; the ledger implements `DurableLedger`.
9. [done] The lock order as an invariant from which freedom of deadlock follows; the Merkle tree and
   the field by induction.
10. The exchange and the custody quorum in one module: an unlock of a container that was delivered.

## 6. Not modelled

* Encryption, HMAC and hashing are library primitives; hashes are injective and ciphers ideal here.
* Teleportation's state vectors, decoys, relays, Bell tests, detection bounds, privacy
  amplification: floating-point statistics of one pass over random data. What their verdicts decide
  is modelled where a handler acts on it (the notary's match, the struck rounds of `SixState`).
* The count of bits leaked in a reconciliation, which only feeds a report and the length of a hash.
* Legacy ledger leaves (v1): one more injective encoding.
* The vault's listing and previews, metrics, wording, the event list of the laboratory, the
  terminal, command-line and web front ends: presentation.
* Sizes of requests and of the maps without a limit.
