---------------------------- MODULE RingDelivery ----------------------------
(***************************************************************************)
(* The consensus ring of server/src/doc_api.rs: a document goes to every   *)
(* member's inbox with a demand for k attestations, members verify and     *)
(* attest, and a copy opens by its inbox number once its tally is at k.    *)
(*                                                                         *)
(* A workspace is locked for one item at a time.  A delivery visits the    *)
(* members in turn, an attestation reads its item, verifies without a      *)
(* lock, and visits the members again; it finds the copies by the number   *)
(* of the attester's item, and every workspace counts its own numbers.     *)
(*                                                                         *)
(* A delivery is of a document of its own, named by its number.  Whether a *)
(* member's keys and the notary accept it is open.  An attestation for     *)
(* somebody without a workspace opens one, as a login does.                *)
(*                                                                         *)
(* Nobody but ring_send should make a demand, but peer_receive files the   *)
(* one a client sends along as it is, for anybody and without a login: any *)
(* k, any members, and a tally that is already filled.  What was in a      *)
(* tally at arrival (`given`) is kept as history: no attestation made it.  *)
(***************************************************************************)
EXTENDS Naturals, Sequences, FiniteSets, SequencesExt

CONSTANTS
  Accounts,      \* who can be a member
  Rings,         \* what a sender asks for: members in order, and k
  Specs,         \* the RingSpecs that clients of peer_receive bring, or NoDemand
  RingClerks,    \* the threads that serve requests
  MaxRings,      \* deliveries (bounds the model)
  MaxPlain       \* items of other deliveries (bounds the model)

\* RingSpec: what a delivery demands, if it does.
Demand == [asked : BOOLEAN, k : Nat, members : Seq(Accounts), attested_by : Seq(Accounts)]
NoDemand == [asked |-> FALSE, k |-> 0, members |-> <<>>, attested_by |-> <<>>]

ASSUME RingAssumption ==
  /\ \A r \in Rings : /\ r.members \in Seq(Accounts)
                      /\ Len(r.members) \in 1..8 /\ r.k \in 1..Len(r.members)
  /\ \A s \in Specs : s \in Demand /\ (~s.asked => s = NoDemand)
  /\ MaxRings \in Nat /\ MaxPlain \in Nat

VARIABLES
  open,       \* accounts with a workspace
  copies,     \* Workspace.inbox
  counter,    \* Workspace.inbox_counter
  records,    \* ring_send's records in the outboxes
  rings,      \* how many ring deliveries there were
  plain,      \* how many other items arrived
  job,        \* what each handler is at
  verdicts,   \* history: every acceptance of a document by a member, as which item,
              \* and whether all its copies were in place
  openings    \* history: who opened which ring's copy by its number, past the gate

ringVars == <<open, copies, counter, records, rings, plain, job, verdicts, openings>>

Idle == [op |-> "none"]

RingInit ==
  /\ open = {} /\ copies = [u \in Accounts |-> {}] /\ counter = [u \in Accounts |-> 0]
  /\ records = {} /\ rings = 0 /\ plain = 0
  /\ job = [c \in RingClerks |-> Idle]
  /\ verdicts = {} /\ openings = {}

At(c, op) == job[c].op = op
Free(c) == job' = [job EXCEPT ![c] = Idle]
Take(c, what) == At(c, "none") /\ job' = [job EXCEPT ![c] = what]

\* A workspace of its own, at login.
OpenWorkspace(u) ==
  /\ open' = open \cup {u}
  /\ UNCHANGED <<copies, counter, records, rings, plain, job, verdicts, openings>>

Filed(u, doc, demand) ==
  /\ copies' = [copies EXCEPT ![u] = @ \cup {[id |-> counter[u], doc |-> doc, ring |-> demand,
                                             given |-> Len(demand.attested_by)]}]
  /\ counter' = [counter EXCEPT ![u] = @ + 1]

\* Any other delivery takes a number as well; peer_receive files the demand that
\* came with it as it is.
PlainArrives(u, spec) ==
  /\ u \in open /\ plain < MaxPlain
  /\ plain' = plain + 1
  /\ Filed(u, 0, spec)
  /\ UNCHANGED <<open, records, rings, job, verdicts, openings>>

\* inbox_delete
DeleteCopy(u, item) ==
  /\ item \in copies[u]
  /\ copies' = [copies EXCEPT ![u] = @ \ {item}]
  /\ UNCHANGED <<open, counter, records, rings, plain, job, verdicts, openings>>

\* ring_send: checked, then the members in turn.
BeginRing(c, request) ==
  /\ rings < MaxRings
  /\ rings' = rings + 1
  /\ Take(c, [op |-> "deliver", doc |-> rings + 1, k |-> request.k,
              members |-> request.members, left |-> request.members, reached |-> FALSE])
  /\ UNCHANGED <<open, copies, counter, records, plain, verdicts, openings>>

\* ring_send has seen the first member left; past the last one, its record is due.
Delivered(c, reached) ==
  LET w == job[c]
  IN  job' = [job EXCEPT ![c] = IF Len(w.left) = 1
                                THEN [op |-> "note", doc |-> w.doc, reached |-> reached]
                                ELSE [w EXCEPT !.left = Tail(w.left), !.reached = reached]]

\* ring_send, one member: nobody without a workspace gets a copy.
DeliverCopy(c) ==
  /\ At(c, "deliver")
  /\ LET w == job[c]
         u == Head(w.left)
     IN  /\ IF u \in open
            THEN Filed(u, w.doc, [asked |-> TRUE, k |-> w.k, members |-> w.members,
                                  attested_by |-> <<>>])
            ELSE UNCHANGED <<copies, counter>>
         /\ Delivered(c, w.reached \/ u \in open)
  /\ UNCHANGED <<open, records, rings, plain, verdicts, openings>>

\* ring_send, its end: the sender's record, if the sender has a workspace.
RecordRing(c) ==
  /\ At(c, "note")
  /\ \/ records' = records \cup {[doc |-> job[c].doc, delivered |-> job[c].reached]}
     \/ UNCHANGED records
  /\ Free(c)
  /\ UNCHANGED <<open, copies, counter, rings, plain, verdicts, openings>>

\* outbox_delete
DeleteRecord(record) ==
  /\ record \in records
  /\ records' = records \ {record}
  /\ UNCHANGED <<open, copies, counter, rings, plain, job, verdicts, openings>>

Named(u, n) == { i \in copies[u] : i.id = n }

\* ring_attest: the member's item, which must ask for this member and lack it.
BeginAttest(c, u, item) ==
  /\ item \in copies[u]
  /\ Contains(item.ring.members, u) /\ ~Contains(item.ring.attested_by, u)
  /\ Take(c, [op |-> "verify", by |-> u, id |-> item.id, doc |-> item.doc,
              members |-> item.ring.members, left |-> item.ring.members])
  /\ UNCHANGED <<open, copies, counter, records, rings, plain, verdicts, openings>>

\* ring_attest: the member's own verification, without a workspace lock.  A rejection
\* reads the tallies and writes none.
VerifyCopy(c, ok) ==
  /\ At(c, "verify")
  /\ LET w == job[c]
         whole == ~\E d \in RingClerks : At(d, "deliver") /\ job[d].doc = w.doc
     IN  /\ job' = [job EXCEPT ![c] = IF ok THEN [w EXCEPT !.op = "record"] ELSE Idle]
         /\ verdicts' = IF ok THEN verdicts \cup {[by |-> w.by, id |-> w.id, doc |-> w.doc,
                                                   whole |-> whole]}
                        ELSE verdicts
  /\ UNCHANGED <<open, copies, counter, records, rings, plain, openings>>

Attested(item, u) ==
  IF Contains(item.ring.attested_by, u) THEN item
  ELSE [item EXCEPT !.ring = [item.ring EXCEPT !.attested_by = Append(item.ring.attested_by, u)]]

\* A handler that records an attestation has seen the first member left.
Visited(c) ==
  LET w == job[c]
  IN  IF Len(w.left) = 1 THEN Free(c) ELSE job' = [job EXCEPT ![c].left = Tail(@)]

\* Mutant: not looked up again before it is pushed.
RecordTwice(c) ==
  /\ At(c, "record")
  /\ LET w == job[c]
         u == Head(w.left)
     IN  copies' = [copies EXCEPT ![u] =
           { IF i.id = w.id /\ i.ring.asked
             THEN [i EXCEPT !.ring.attested_by = Append(@, w.by)] ELSE i : i \in @ }]
  /\ Visited(c)
  /\ UNCHANGED <<open, counter, records, rings, plain, verdicts, openings>>

\* Mutant: only the first member's copy is written.
RecordFirst(c) ==
  /\ At(c, "record")
  /\ LET w == job[c]
         u == Head(w.left)
     IN  copies' = [copies EXCEPT ![u] =
           { IF i.id = w.id /\ i.ring.asked THEN Attested(i, w.by) ELSE i : i \in @ }]
  /\ Free(c)
  /\ UNCHANGED <<open, counter, records, rings, plain, verdicts, openings>>

\* ring_attest, one member: the item of that number, if it is a ring's.
RecordAttestation(c) ==
  /\ At(c, "record")
  /\ LET w == job[c]
         u == Head(w.left)
     IN  copies' = [copies EXCEPT ![u] =
           { IF i.id = w.id /\ i.ring.asked THEN Attested(i, w.by) ELSE i : i \in @ }]
  /\ Visited(c)
  /\ UNCHANGED <<open, counter, records, rings, plain, verdicts, openings>>

\* doc_open by inbox number: the container of the item,
BeginOpen(c, u, item) ==
  /\ item \in copies[u]
  /\ Take(c, [op |-> "gate", by |-> u, id |-> item.id, doc |-> item.doc])
  /\ UNCHANGED <<open, copies, counter, records, rings, plain, verdicts, openings>>

\* Mutant: the gate lets one attestation too few pass.
PassesEarly(items) ==
  \A i \in items : i.ring.asked => Len(i.ring.attested_by) + 1 >= i.ring.k

\* the gate asks for the item again, and is open when it is gone.
Passes(items) ==
  \A i \in items : i.ring.asked => Len(i.ring.attested_by) >= i.ring.k

\* then the gate, in a section of its own; what the keys open is left open.
Gate(c) ==
  /\ At(c, "gate")
  /\ LET w == job[c]
     IN  openings' = IF Passes(Named(w.by, w.id))
                     THEN openings \cup
                          { [by |-> w.by, id |-> w.id, k |-> i.ring.k, given |-> i.given] :
                            i \in { n \in Named(w.by, w.id) : n.ring.asked } }
                     ELSE openings
  /\ Free(c)
  /\ UNCHANGED <<open, copies, counter, records, rings, plain, verdicts>>

RingNext ==
  \/ \E u \in Accounts :
       \/ OpenWorkspace(u)
       \/ \E spec \in Specs : PlainArrives(u, spec)
       \/ \E item \in copies[u] : DeleteCopy(u, item)
  \/ \E c \in RingClerks :
       \/ \E request \in Rings : BeginRing(c, request)
       \/ \E u \in Accounts : \E item \in copies[u] :
            BeginAttest(c, u, item) \/ BeginOpen(c, u, item)
       \/ \E ok \in BOOLEAN : VerifyCopy(c, ok)
       \/ DeliverCopy(c) \/ RecordRing(c) \/ RecordAttestation(c) \/ Gate(c)
  \/ \E record \in records : DeleteRecord(record)

RingBehaviour == RingInit /\ [][RingNext]_ringVars

-----------------------------------------------------------------------------
Copies == UNION { copies[u] : u \in Accounts }

\* Beyond what was in it at arrival, a copy's tally counts acceptances: whoever was
\* added is not in it a second time, however many attestations of one member run
\* at once, and had accepted a document as an own item of that number.
TallyCountsAcceptances ==
  \A u \in Accounts : \A i \in copies[u] : \A n \in i.given + 1 .. Len(i.ring.attested_by) :
    /\ \A m \in DOMAIN i.ring.attested_by :
         i.ring.attested_by[m] = i.ring.attested_by[n] => m = n
    /\ \E v \in verdicts : v.by = i.ring.attested_by[n] /\ v.id = i.id

\* "shared tally": an attestation given after a ring's delivery was complete is, once
\* recorded, on all copies of the document that carry one number, or on none.
SharedWhereAligned ==
  (\A c \in RingClerks : ~At(c, "record")) =>
    \A v \in verdicts : v.whole /\ v.doc # 0 =>
      \A i, j \in { n \in Copies : n.doc = v.doc /\ n.id = v.id } :
        Contains(i.ring.attested_by, v.by) = Contains(j.ring.attested_by, v.by)

\* Past the gate of a copy that was there, so many different accounts had accepted
\* a document as their item of that number as were missing from its k when it
\* arrived: all k of them for a copy that ring_send filed.
OpenedByQuorum ==
  \A o \in openings :
    Cardinality({ v.by : v \in { w \in verdicts : w.id = o.id } }) + o.given >= o.k

\* "Usernames whose independent verification counts toward the quorum", "Members
\* who have attested so far": the tally of a copy that ring_send filed names
\* members of its ring only, and who accepted this document.
TallyIsOfThisDocument ==
  \A i \in { n \in Copies : n.doc # 0 } : \A a \in Range(i.ring.attested_by) :
    /\ Contains(i.ring.members, a)
    /\ \E v \in verdicts : v.by = a /\ v.doc = i.doc
=============================================================================
