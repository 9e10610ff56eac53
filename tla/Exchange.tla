------------------------------ MODULE Exchange ------------------------------
(***************************************************************************)
(* The document exchange of one server process (server/src/doc_api.rs):    *)
(* session keys and their history, sealing, sending to a local account or  *)
(* to another laptop, the inbox with its verdicts, the outbox, the relay   *)
(* mailbox with its claim codes, and the staged attacks.                   *)
(*                                                                         *)
(* Every workspace has a lock of its own and the mailbox has one; a        *)
(* handler takes them one after the other, so each lock section is a step  *)
(* and other requests run in between.  An item's container, the keys that  *)
(* judge it and the verdict that is written back come from three sections. *)
(*                                                                         *)
(* Workspace.last_sealed is one of the containers in `held`.  A request    *)
(* that is refused before it changes anything is left out, and so is the   *)
(* notary's signature, the second factor of an open (see QdsServer).       *)
(***************************************************************************)
EXTENDS SealedContainer, SequencesExt

CONSTANTS
  Users,        \* the accounts
  Archive,      \* containers that clients bring along
  History,      \* how many older keys a session remembers
  Clerks,       \* the threads that serve requests
  Profiles,     \* what clients ask for: the clients of a behaviour follow one of them,
                \* with so many clerks at work, captures and sends of an account
                \* and arrivals in all (bounds the model)
  MaxCodes,     \* deposits on the relay (bounds the model)
  MaxForged,    \* containers the attack endpoints make (bounds the model)
  MaxRestarts   \* (bounds the model)

ASSUME ExchangeAssumption ==
  /\ History \in Nat
  /\ \A p \in Profiles :
       /\ p.clerks \subseteq Clerks
       /\ p.captures \in Nat /\ p.sends \in Nat /\ p.arrivals \in Nat
  /\ MaxCodes \in Nat /\ MaxForged \in Nat /\ MaxRestarts \in Nat

VARIABLES
  profile,    \* what the clients ask for
  here,       \* accounts that logged in since the start: they have a workspace
  session,    \* SealSession: the key in use, the older ones
  captured,   \* every key distilled for an account since the start, in order
  held,       \* the containers clients hold
  forged,     \* what the attack endpoints made, of what
  inbox,      \* Workspace.inbox
  nextItem,   \* Workspace.inbox_counter
  arrived,    \* who got which container as which item, since the start
  outbox,     \* Workspace.outbox
  mailbox,    \* the relay's deposits
  codes,      \* how many deposits there were since the start
  redeemed,   \* the codes whose deposit reached an inbox, in order
  work,       \* what each handler is at
  restarts

exchangeVars == <<profile, here, session, captured, held, forged, inbox, nextItem, arrived, outbox,
                  mailbox, codes, redeemed, work, restarts>>
keyVars == <<profile, here, session, captured, held, forged>>
relayVars == <<mailbox, codes, redeemed>>

NoWork == [op |-> "none"]
Anyone == "anyone"          \* who makes a deposit without a login, and may claim one
Fresh == [cur |-> NoKey, old |-> <<>>]

ExchangeInit ==
  /\ profile \in Profiles
  /\ here = {} /\ held = Archive /\ forged = {}
  /\ session = [u \in Users |-> Fresh] /\ captured = [u \in Users |-> <<>>]
  /\ inbox = [u \in Users |-> {}] /\ nextItem = [u \in Users |-> 0] /\ arrived = {}
  /\ outbox = [u \in Users |-> {}]
  /\ mailbox = {} /\ codes = 0 /\ redeemed = <<>>
  /\ work = [c \in Clerks |-> NoWork]
  /\ restarts = 0

Doing(c, op) == work[c].op = op
Done(c) == work' = [work EXCEPT ![c] = NoWork]
Begin(c, what) == Doing(c, "none") /\ work' = [work EXCEPT ![c] = what]

-----------------------------------------------------------------------------
\* A login opens the workspace; workspaces are never removed.
Login(u) ==
  /\ here' = here \cup {u}
  /\ UNCHANGED <<profile, session, captured, held, forged, inbox, nextItem, arrived, outbox, work, restarts>>
  /\ UNCHANGED relayVars

\* Mutant: the history keeps the oldest keys.
SetSecretKeepsOldest(s, k) ==
  IF s.cur = k THEN s
  ELSE [cur |-> k,
        old |-> IF s.cur = NoKey THEN s.old
                ELSE IF Len(s.old) = History THEN s.old ELSE Append(s.old, s.cur)]

\* SealSession::set_secret: the same key again changes nothing.
SetSecret(s, k) ==
  LET pushed == Append(s.old, s.cur)
  IN  IF s.cur = k THEN s
      ELSE [cur |-> k,
            old |-> IF s.cur = NoKey THEN s.old
                    ELSE IF Len(pushed) > History THEN Tail(pushed) ELSE pushed]

\* SealSession::known_secrets
Known(u) == (IF session[u].cur = NoKey THEN {} ELSE {session[u].cur}) \cup Range(session[u].old)

\* qds_derive_key, or a run that distils a key; the same seed gives the same key.
Capture(u, k) ==
  /\ u \in here /\ Len(captured[u]) < profile.captures
  /\ session' = [session EXCEPT ![u] = SetSecret(@, k)]
  /\ captured' = [captured EXCEPT ![u] = Append(@, k)]
  /\ UNCHANGED <<profile, here, held, forged, inbox, nextItem, arrived, outbox, work, restarts>>
  /\ UNCHANGED relayVars

\* doc_seal, under the workspace lock from the key to last_sealed; peer_send
\* seals in the same way before it sends.
DocSeal(u, file) ==
  /\ u \in here /\ session[u].cur # NoKey
  /\ held' = held \cup {ContainerBytes(SealDocument(file, session[u].cur), TRUE)}
  /\ UNCHANGED <<profile, here, session, captured, forged, inbox, nextItem, arrived, outbox, work, restarts>>
  /\ UNCHANGED relayVars

\* doc_transfer, unless the channel is under attack: a key of its own becomes the
\* session key in one section,
BeginTransfer(c, u, k) ==
  /\ u \in here /\ Len(captured[u]) < profile.captures
  /\ Begin(c, [op |-> "transfer", key |-> k])
  /\ session' = [session EXCEPT ![u] = SetSecret(@, k)]
  /\ captured' = [captured EXCEPT ![u] = Append(@, k)]
  /\ UNCHANGED <<profile, here, held, forged, inbox, nextItem, arrived, outbox, restarts>>
  /\ UNCHANGED relayVars

\* and what is sealed later is sealed under it, whatever the session key is then.
EndTransfer(c) ==
  /\ Doing(c, "transfer")
  /\ \E file \in Docs :
       held' = held \cup {ContainerBytes(SealDocument(file, work[c].key), TRUE)}
  /\ Done(c)
  /\ UNCHANGED <<profile, here, session, captured, forged, inbox, nextItem, arrived, outbox, restarts>>
  /\ UNCHANGED relayVars

\* attack_document
AttackDocument(bytes, mode) ==
  /\ Cardinality(forged) < MaxForged
  /\ forged' = forged \cup {[from |-> bytes, bytes |-> Attacked(bytes, mode)]}
  /\ held' = held \cup {Attacked(bytes, mode)}
  /\ UNCHANGED <<profile, here, session, captured, inbox, nextItem, arrived, outbox, work, restarts>>
  /\ UNCHANGED relayVars

-----------------------------------------------------------------------------
\* A delivery: the container, its destination and sender, the relay code it came
\* under, whether it is flagged as forged, and what is found out on the way.
Delivery(via, by, to, bytes, code, bad) ==
  [op |-> IF via \in {"local", "theater"} THEN "judge" ELSE "reveal",
   via |-> via, by |-> by, to |-> to, bytes |-> bytes, code |-> code, bad |-> bad,
   can |-> FALSE, meta |-> HiddenMeta]

\* peer_send to an account of this server, or through peer_receive of another.
BeginSend(c, u, via, to, bytes) ==
  /\ u \in here /\ Cardinality(outbox[u]) < profile.sends
  /\ Begin(c, Delivery(via, u, to, bytes, 0, FALSE))
  /\ UNCHANGED <<inbox, nextItem, arrived, outbox, restarts>>
  /\ UNCHANGED keyVars /\ UNCHANGED relayVars

\* peer_receive: the recipient must have a workspace.
BeginReceive(c, to, bytes) ==
  /\ to \in here
  /\ Begin(c, Delivery("receive", to, to, bytes, 0, FALSE))
  /\ UNCHANGED <<inbox, nextItem, arrived, outbox, restarts>>
  /\ UNCHANGED keyVars /\ UNCHANGED relayVars

\* attack_theater up to the victim's verdict, which opens a workspace for it.
BeginTheater(c, victim, bytes, mode) ==
  LET made == Attacked(bytes, mode)
  IN  /\ Cardinality(forged) < MaxForged
      /\ Begin(c, Delivery("theater", victim, victim, made, 0,
                           VerifyAgainst(made, Known(victim)) # "passed"))
      /\ here' = here \cup {victim}
      /\ held' = held \cup {made}
      /\ forged' = forged \cup {[from |-> bytes, bytes |-> made]}
      /\ UNCHANGED <<profile, session, captured, inbox, nextItem, arrived, outbox, restarts>>
      /\ UNCHANGED relayVars

\* deliver_local and peer_receive: whether a key of the recipient verifies it.
Judge(c) ==
  /\ Doing(c, "judge")
  /\ LET w == work[c]
     IN  work' = [work EXCEPT
           ![c].op = IF w.via \in {"local", "theater"} THEN "reveal" ELSE "push",
           ![c].can = VerifyAgainst(w.bytes, Known(w.to)) = "passed"]
  /\ UNCHANGED <<inbox, nextItem, arrived, outbox, restarts>>
  /\ UNCHANGED keyVars /\ UNCHANGED relayVars

\* The metadata an inbox shows: what a key of the recipient unseals; else a
\* placeholder, or for peer_receive what the container shows without a key.
Shown(w) ==
  LET docs == UnsealAgainst(w.bytes, Known(w.to))
  IN  IF docs # {} THEN (CHOOSE d \in docs : TRUE).meta
      ELSE IF w.via \in {"receive", "laptop"} THEN ParseContainer(w.bytes).doc.meta ELSE HiddenMeta

\* deliver_local, peer_receive and relay_claim: the metadata.
Reveal(c) ==
  /\ Doing(c, "reveal")
  /\ LET w == work[c]
     IN  work' = [work EXCEPT ![c].op = IF w.via \in {"receive", "laptop"} THEN "judge" ELSE "push",
                              ![c].meta = Shown(w)]
  /\ UNCHANGED <<inbox, nextItem, arrived, outbox, restarts>>
  /\ UNCHANGED keyVars /\ UNCHANGED relayVars

\* inbox_counter
NewId(u) == nextItem[u]

\* deliver_local, peer_receive and relay_claim: the item is filed.
Push(c) ==
  /\ Doing(c, "push")
  /\ LET d == work[c]
         item == [id |-> NewId(d.to), bytes |-> d.bytes, meta |-> d.meta,
                  verified |-> IF d.bad THEN "no" ELSE IF d.can THEN "yes" ELSE "unknown"]
     IN  /\ Cardinality(arrived) < profile.arrivals
         /\ d.to \in here
         /\ inbox' = [inbox EXCEPT ![d.to] = @ \cup {item}]
         /\ nextItem' = [nextItem EXCEPT ![d.to] = @ + 1]
         /\ arrived' = arrived \cup {[to |-> d.to, id |-> item.id, bytes |-> d.bytes]}
         /\ redeemed' = IF d.via = "relay" THEN Append(redeemed, d.code) ELSE redeemed
         /\ IF d.via \in {"local", "laptop"} THEN work' = [work EXCEPT ![c].op = "filed"]
                                             ELSE Done(c)
  /\ UNCHANGED <<outbox, mailbox, codes, restarts>>
  /\ UNCHANGED keyVars

\* The destination has no workspace there, or the other laptop is not reached.
Undeliverable(c) ==
  /\ \/ Doing(c, "push") /\ work[c].to \notin here
     \/ Doing(c, "reveal") /\ work[c].via = "laptop"
  /\ work' = [work EXCEPT ![c].op = "refused"]
  /\ UNCHANGED <<inbox, nextItem, arrived, outbox, restarts>>
  /\ UNCHANGED keyVars /\ UNCHANGED relayVars

\* Mutant: the record says "delivered" whatever came back.
ReplyTakenAsYes(c) == {TRUE}

\* What peer_send learns of the delivery: a laptop's reply may be lost or late.
Reply(c) ==
  IF Doing(c, "refused") THEN {FALSE}
  ELSE IF work[c].via = "laptop" THEN {TRUE, FALSE} ELSE {TRUE}

\* peer_send, its end: the sender's record.
RecordSent(c) ==
  /\ Doing(c, "filed") \/ Doing(c, "refused")
  /\ \E delivered \in Reply(c) :
       outbox' = [outbox EXCEPT ![work[c].by] =
                    @ \cup {[bytes |-> work[c].bytes, to |-> work[c].to, via |-> work[c].via,
                             code |-> 0, delivered |-> delivered]}]
  /\ Done(c)
  /\ UNCHANGED <<inbox, nextItem, arrived, restarts>>
  /\ UNCHANGED keyVars /\ UNCHANGED relayVars

-----------------------------------------------------------------------------
\* inbox_verify, its first section: the item with that number.
BeginVerify(c, u, item) ==
  /\ u \in here /\ item \in inbox[u]
  /\ Begin(c, [op |-> "check", to |-> u, id |-> item.id, bytes |-> item.bytes])
  /\ UNCHANGED <<inbox, nextItem, arrived, outbox, restarts>>
  /\ UNCHANGED keyVars /\ UNCHANGED relayVars

\* inbox_verify, its second section: the keys, and the verdict under them.
CheckUnderKeys(c) ==
  /\ Doing(c, "check")
  /\ LET w == work[c]
         outcome == VerifyAgainst(w.bytes, Known(w.to))
         docs == UnsealAgainst(w.bytes, Known(w.to))
         meta == IF docs = {} THEN ParseContainer(w.bytes).doc.meta
                 ELSE (CHOOSE d \in docs : TRUE).meta
     IN  IF outcome = "none" THEN Done(c)
         ELSE work' = [work EXCEPT ![c] = [op |-> "verdict", to |-> w.to, id |-> w.id,
                                           passed |-> outcome = "passed", meta |-> meta]]
  /\ UNCHANGED <<inbox, nextItem, arrived, outbox, restarts>>
  /\ UNCHANGED keyVars /\ UNCHANGED relayVars

\* Mutant: the verdict goes to the item that came last.
RecordVerdictLast(c) ==
  /\ Doing(c, "verdict")
  /\ LET w == work[c]
     IN  inbox' = [inbox EXCEPT ![w.to] =
           { IF i.id # nextItem[w.to] - 1 THEN i
             ELSE [i EXCEPT !.verified = IF w.passed THEN "yes" ELSE "no", !.meta = w.meta] :
             i \in @ }]
  /\ Done(c)
  /\ UNCHANGED <<nextItem, arrived, outbox, restarts>>
  /\ UNCHANGED keyVars /\ UNCHANGED relayVars

\* inbox_verify, its third section: the verdict on the item with that number.
RecordVerdict(c) ==
  /\ Doing(c, "verdict")
  /\ LET w == work[c]
     IN  inbox' = [inbox EXCEPT ![w.to] =
           { IF i.id # w.id THEN i
             ELSE [i EXCEPT !.verified = IF w.passed THEN "yes" ELSE "no", !.meta = w.meta] :
             i \in @ }]
  /\ Done(c)
  /\ UNCHANGED <<nextItem, arrived, outbox, restarts>>
  /\ UNCHANGED keyVars /\ UNCHANGED relayVars

\* inbox_delete
InboxDelete(u, item) ==
  /\ u \in here /\ item \in inbox[u]
  /\ inbox' = [inbox EXCEPT ![u] = { i \in @ : i.id # item.id }]
  /\ UNCHANGED <<nextItem, arrived, outbox, work, restarts>>
  /\ UNCHANGED keyVars /\ UNCHANGED relayVars

\* outbox_delete
OutboxDelete(u, sent) ==
  /\ u \in here /\ sent \in outbox[u]
  /\ outbox' = [outbox EXCEPT ![u] = @ \ {sent}]
  /\ UNCHANGED <<inbox, nextItem, arrived, work, restarts>>
  /\ UNCHANGED keyVars /\ UNCHANGED relayVars

-----------------------------------------------------------------------------
\* relay_deposit, its first section: parked under a fresh code; anybody may, also
\* unauthenticated.
RelayDeposit(c, by, bytes) ==
  /\ codes < MaxCodes
  /\ by \in Users => by \in here /\ Cardinality(outbox[by]) < profile.sends
  /\ Begin(c, [op |-> "parked", by |-> by, bytes |-> bytes, under |-> codes + 1])
  /\ codes' = codes + 1
  /\ mailbox' = mailbox \cup {[code |-> codes + 1, bytes |-> bytes]}
  /\ UNCHANGED <<inbox, nextItem, arrived, outbox, redeemed, restarts>>
  /\ UNCHANGED keyVars

\* relay_deposit, its second section: the record of a depositor that is logged in
\* says "delivered" though the deposit still waits.  (The name on it binds nobody:
\* a claim is not held against it.)
RecordDeposit(c) ==
  /\ Doing(c, "parked")
  /\ outbox' = [u \in Users |->
                  IF u # work[c].by THEN outbox[u]
                  ELSE outbox[u] \cup {[bytes |-> work[c].bytes, to |-> Anyone, via |-> "relay",
                                        code |-> work[c].under, delivered |-> TRUE]}]
  /\ Done(c)
  /\ UNCHANGED <<inbox, nextItem, arrived, restarts>>
  /\ UNCHANGED keyVars /\ UNCHANGED relayVars

\* Mutant: the deposit is looked at, and stays.
BeginClaimKeeps(c, u, deposit) ==
  /\ u \in here /\ deposit \in mailbox
  /\ Begin(c, Delivery("relay", u, u, deposit.bytes, deposit.code, FALSE))
  /\ UNCHANGED <<inbox, nextItem, arrived, outbox, restarts>>
  /\ UNCHANGED keyVars /\ UNCHANGED relayVars

\* relay_claim, its first section: the deposit is taken out.
BeginClaim(c, u, deposit) ==
  /\ u \in here /\ deposit \in mailbox
  /\ Begin(c, Delivery("relay", u, u, deposit.bytes, deposit.code, FALSE))
  /\ mailbox' = mailbox \ {deposit}
  /\ UNCHANGED <<inbox, nextItem, arrived, outbox, codes, redeemed, restarts>>
  /\ UNCHANGED keyVars

\* relay_claim, addressed to another user: it is put back in a second section.
PutBack(c) ==
  /\ Doing(c, "reveal") /\ work[c].via = "relay"
  /\ mailbox' = mailbox \cup {[code |-> work[c].code, bytes |-> work[c].bytes]}
  /\ Done(c)
  /\ UNCHANGED <<inbox, nextItem, arrived, outbox, codes, redeemed, restarts>>
  /\ UNCHANGED keyVars

\* The process stops and starts again: workspaces, mailbox and requests are gone.
Restart ==
  /\ restarts < MaxRestarts
  /\ restarts' = restarts + 1
  /\ here' = {} /\ session' = [u \in Users |-> Fresh] /\ captured' = [u \in Users |-> <<>>]
  /\ inbox' = [u \in Users |-> {}] /\ nextItem' = [u \in Users |-> 0] /\ arrived' = {}
  /\ outbox' = [u \in Users |-> {}]
  /\ mailbox' = {} /\ codes' = 0 /\ redeemed' = <<>>
  /\ work' = [c \in Clerks |-> NoWork]
  /\ UNCHANGED <<profile, held, forged>>

Asked(request) == request \in profile.asks

ExchangeNext ==
  \/ \E u \in Users :
       \/ Asked("login") /\ Login(u)
       \/ \E k \in Keys : Asked("key") /\ Capture(u, k)
       \/ \E file \in Docs : Asked("seal") /\ DocSeal(u, file)
       \/ \E item \in inbox[u] : Asked("delete") /\ InboxDelete(u, item)
       \/ \E sent \in outbox[u] : Asked("delete") /\ OutboxDelete(u, sent)
  \/ \E bytes \in held, mode \in AttackModes : Asked("attack") /\ AttackDocument(bytes, mode)
  \/ \E c \in profile.clerks :
       \/ \E u \in Users :
            \/ \E k \in Keys : Asked("transfer") /\ BeginTransfer(c, u, k)
            \/ \E bytes \in held :
                 \/ \E to \in Users, via \in {"local", "laptop"} :
                      Asked("send") /\ BeginSend(c, u, via, to, bytes)
                 \/ Asked("receive") /\ BeginReceive(c, u, bytes)
                 \/ \E by \in {u, Anyone} : Asked("deposit") /\ RelayDeposit(c, by, bytes)
                 \/ \E mode \in AttackModes : Asked("theater") /\ BeginTheater(c, u, bytes, mode)
            \/ \E item \in inbox[u] : Asked("verify") /\ BeginVerify(c, u, item)
            \/ \E deposit \in mailbox : Asked("claim") /\ BeginClaim(c, u, deposit)
       \/ Judge(c) \/ Reveal(c) \/ Push(c) \/ Undeliverable(c) \/ RecordSent(c)
       \/ RecordDeposit(c) \/ CheckUnderKeys(c) \/ RecordVerdict(c) \/ PutBack(c) \/ EndTransfer(c)
  \/ Asked("restart") /\ Restart

ExchangeSpec == ExchangeInit /\ [][ExchangeNext]_exchangeVars

-----------------------------------------------------------------------------
\* What an inbox says of an item is true of that item, whatever was filed,
\* deleted or distilled while it was being verified: marked verified, its own
\* container verifies under a key this account had; metadata, when shown, is
\* what that container says.
InboxSpeaksTrue ==
  \A u \in Users : \A i \in inbox[u] :
    /\ i.verified = "yes" => VerifyAgainst(i.bytes, Range(captured[u])) = "passed"
    /\ i.meta # HiddenMeta =>
         \E d \in UnsealAgainst(i.bytes, Range(captured[u])) \cup {ParseContainer(i.bytes).doc} :
           d.meta = i.meta
    /\ [to |-> u, id |-> i.id, bytes |-> i.bytes] \in arrived

\* A key is forgotten only when History + 1 later ones were distilled: until then
\* every document sealed under it opens, and gives back the file.
RecentKeysOpen ==
  \A u \in Users : \A n \in 1..Len(captured[u]) :
    n >= Len(captured[u]) - History =>
      \A file \in Docs :
        OpenAgainst(ContainerBytes(SealDocument(file, captured[u][n]), TRUE), Known(u)) = {file}

\* "All four tamper modes rejected": what the attack endpoints make never passes
\* under any keys and never opens - unless it is what was attacked, unchanged.
AttacksNeverPass ==
  \A f \in forged :
    f.bytes # f.from => /\ VerifyAgainst(f.bytes, Keys) # "passed"
                        /\ OpenAgainst(f.bytes, Keys) = {}

\* A deposit is in the mailbox, in the hands of one claim, or in one inbox:
\* parallel claims, also those for another user, neither lose nor double it.
RelayConserved ==
  \A code \in 1..codes :
    Cardinality({ d \in mailbox : d.code = code })
    + Cardinality({ c \in Clerks : "code" \in DOMAIN work[c] /\ work[c].code = code })
    + Cardinality({ n \in DOMAIN redeemed : redeemed[n] = code }) = 1

\* A record of the outbox that says "delivered" is true of what peer_send sent: the
\* container was filed in an inbox of the destination, though a reply may be lost or
\* come too late.  Of a deposit it says less: the very container is still in the
\* mailbox under the code of the record, or in the hands of a claim, or was filed.
OutboxSpeaksTrue ==
  \A u \in Users : \A sent \in outbox[u] :
    sent.delivered =>
      IF sent.via # "relay" THEN \E a \in arrived : a.to = sent.to /\ a.bytes = sent.bytes
      ELSE \/ \E d \in mailbox : d.code = sent.code /\ d.bytes = sent.bytes
           \/ \E c \in Clerks : /\ "code" \in DOMAIN work[c] /\ work[c].code = sent.code
                                /\ work[c].bytes = sent.bytes
           \/ /\ Contains(redeemed, sent.code)
              /\ \E a \in arrived : a.bytes = sent.bytes
=============================================================================
