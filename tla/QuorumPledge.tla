---------------------------- MODULE QuorumPledge ----------------------------
(***************************************************************************)
(* The cross-account custody quorum (server/src/doc_api.rs): a sealant     *)
(* splits the session key when sealing, hands the shares to named          *)
(* accounts, the holders pledge them back, and the sealant unlocks with    *)
(* the pledged shares or with shares presented in the request.  Every      *)
(* account has a workspace under a lock of its own; a handler that needs   *)
(* two workspaces, or one of them twice, releases it in between, and       *)
(* other requests run there.                                               *)
(*                                                                         *)
(* A share is its split and its x-coordinate: its commitment tells shares  *)
(* of different splits apart.  The shares of a key combine to that key     *)
(* only when the key is in Exact: GF(251) has no byte of 251 or more.      *)
(*                                                                         *)
(* A request that is rejected changes nothing here and is left out.        *)
(***************************************************************************)
EXTENDS Naturals, Sequences, FiniteSets

CONSTANTS
  Users,      \* the accounts; each has logged in, so each has a workspace
  Sealants,   \* the accounts that seal
  Total,      \* quorum_shares of every split
  Threshold,  \* quorum_threshold of every split
  Rosters,    \* the lists of accounts a distribution may name
  Handlers,   \* the threads that serve requests
  MaxSplits,  \* how often a key may be split (bounds the model)
  MaxKeys,    \* how many keys may be derived (bounds the model)
  Exact       \* the keys, by number, that no byte keeps from being combined

ASSUME QuorumAssumption ==
  /\ Sealants \subseteq Users
  /\ Total \in 2..15 /\ Threshold \in 2..Total
  /\ Rosters \subseteq [1..Total -> Users]
  /\ MaxSplits \in Nat /\ MaxKeys \in Nat /\ Exact \subseteq 1..MaxKeys

VARIABLES
  keys,       \* the number of keys derived so far; a key is its number
  splits,     \* the splits made so far: the key of each
  session,    \* SealSession of each sealant: the key in use and the split on record
  custody,    \* Workspace.custody of each account: a set of at most one share
  pending,    \* Workspace.pending_pledges: the shares, and by whom each was pledged
  calm,       \* no other request has run beside a distribution
  job         \* what each handler is at

vars == <<keys, splits, session, custody, pending, calm, job>>

None == 0
Share == [split : 1..MaxSplits, x : 1..Total]
Pledge == [share : Share, by : Users]
\* A sealed container: its key, and whether it comes as a v3 envelope.  The one
\* sealed last is kept in memory, where it is none.
Container == [key : 1..MaxKeys, enveloped : BOOLEAN]
Idle == [op |-> "idle"]

Init ==
  /\ keys = 0 /\ splits = <<>>
  /\ session = [s \in Sealants |-> [key |-> None, split |-> None]]
  /\ custody = [u \in Users |-> {}]
  /\ pending = [s \in Sealants |-> {}]
  /\ calm = TRUE
  /\ job = [h \in Handlers |-> Idle]

At(h, op) == job[h].op = op
Distributing == { h \in Handlers : At(h, "distribute") }
Busy == { h \in Handlers : ~At(h, "idle") }
End(h) == job' = [job EXCEPT ![h] = Idle]

\* A request that stays in one section of the sealant's lock runs.
AtOnce == calm' = (calm /\ Distributing = {}) /\ UNCHANGED job

\* A request of several sections starts.
Start(h, what) ==
  /\ At(h, "idle")
  /\ job' = [job EXCEPT ![h] = what]
  /\ calm' = (calm /\ Distributing = {} /\ (what.op = "distribute" => Busy = {}))

-----------------------------------------------------------------------------
\* qds_derive_key, set_secret: a fresh session key.
DeriveKey(s) ==
  /\ keys < MaxKeys
  /\ keys' = keys + 1
  /\ session' = [session EXCEPT ![s].key = keys + 1]
  /\ AtOnce
  /\ UNCHANGED <<splits, custody, pending>>

\* doc_seal with use_quorum: a fresh split; older pledges are dropped.
SealWithQuorum(s) ==
  /\ session[s].key # None /\ Len(splits) < MaxSplits
  /\ splits' = Append(splits, session[s].key)
  /\ session' = [session EXCEPT ![s].split = Len(splits) + 1]
  /\ pending' = [pending EXCEPT ![s] = {}]
  /\ AtOnce
  /\ UNCHANGED <<keys, custody>>

-----------------------------------------------------------------------------
\* quorum_distribute, its first section: the shares on record.
BeginDistribute(h, s, roster) ==
  /\ session[s].split # None
  /\ Start(h, [op |-> "distribute", by |-> s, split |-> session[s].split,
               roster |-> roster, x |-> 1])
  /\ UNCHANGED <<keys, splits, session, custody, pending>>

\* quorum_distribute, its loop: share x replaces what roster[x] has in custody.
HandOver(h) ==
  /\ At(h, "distribute") /\ job[h].x <= Total
  /\ LET d == job[h]
     IN  custody' = [custody EXCEPT ![d.roster[d.x]] =
                       {[share |-> [split |-> d.split, x |-> d.x], from |-> d.by]}]
  /\ job' = [job EXCEPT ![h].x = @ + 1]
  /\ UNCHANGED <<keys, splits, session, pending, calm>>

\* Mutant: the distribution leaves older pledges where they are.
EndDistributeKeepsPledges(h) ==
  /\ At(h, "distribute") /\ job[h].x > Total
  /\ End(h)
  /\ UNCHANGED <<keys, splits, session, custody, pending, calm>>

\* quorum_distribute, its end: "a fresh distribution invalidates pledges".
EndDistribute(h) ==
  /\ At(h, "distribute") /\ job[h].x > Total
  /\ pending' = [pending EXCEPT ![job[h].by] = {}]
  /\ End(h)
  /\ UNCHANGED <<keys, splits, session, custody, calm>>

\* quorum_pledge, its first section: the share in the holder's custody.
BeginPledge(h, u) ==
  /\ \E c \in custody[u] :
       Start(h, [op |-> "pledge", to |-> c.from, pledge |-> [share |-> c.share, by |-> u]])
  /\ UNCHANGED <<keys, splits, session, custody, pending>>

\* Mutant: a share that was pledged before is pushed again.
EndPledgeAgain(h) ==
  /\ At(h, "pledge")
  /\ pending' = [pending EXCEPT ![job[h].to] = @ \cup {job[h].pledge}]
  /\ End(h)
  /\ UNCHANGED <<keys, splits, session, custody, calm>>

\* quorum_pledge, its second section: pushed unless its x is there already; the
\* answer is "pledged" either way.
EndPledge(h) ==
  /\ At(h, "pledge")
  /\ LET to == job[h].to
         p == job[h].pledge
     IN  pending' = IF \E q \in pending[to] : q.share.x = p.share.x
                    THEN pending
                    ELSE [pending EXCEPT ![to] = @ \cup {p}]
  /\ End(h)
  /\ UNCHANGED <<keys, splits, session, custody, calm>>

-----------------------------------------------------------------------------
\* Mutant: pledges are counted, their commitments never looked up.
RecognizedAll(s, pledges) == pledges

\* The commitment check of quorum_unlock against the shares on record.
Recognized(s, pledges) == { p \in pledges : p.share.split = session[s].split }

\* combine_shares, for shares with distinct x: the key, or what is no key.
Combined(shares) ==
  LET of == { p.share.split : p \in shares }
  IN  IF /\ Cardinality(of) = 1 /\ Cardinality(shares) >= Threshold
         /\ \A n \in of : splits[n] \in Exact
      THEN splits[CHOOSE n \in of : TRUE]
      ELSE None

\* quorum_unlock without shares in the request: enough pledges are recognized.
BeginUnlock(h, s) ==
  LET valid == Recognized(s, pending[s])
  IN  /\ session[s].split # None
      /\ Cardinality(valid) >= Threshold
      /\ Start(h, [op |-> "unlock", by |-> s, pledged |-> TRUE, valid |-> valid])
      /\ UNCHANGED <<keys, splits, session, custody, pending>>

\* quorum_unlock with shares in the request, those with the numbers xs recognized.
BeginPresent(h, s, xs) ==
  /\ session[s].split # None
  /\ Cardinality(xs) >= Threshold
  /\ Start(h, [op |-> "unlock", by |-> s, pledged |-> FALSE,
               valid |-> { [share |-> [split |-> session[s].split, x |-> x], by |-> s] : x \in xs }])
  /\ UNCHANGED <<keys, splits, session, custody, pending>>

\* The verdict of verify_document is in the handler's hands.
Judge(h, container, passed) ==
  /\ container.key <= keys
  /\ job' = [job EXCEPT ![h] =
               [op |-> "verdict", by |-> @.by, pledged |-> @.pledged, valid |-> @.valid,
                container |-> container, passed |-> passed]]

\* quorum_unlock on pledges, its second section: a container of the request, or
\* the one sealed last, is verified under the combined key.  An envelope is
\* unsealed first; the key of another one is an error, which ends the request.
VerifyPledged(h, container) ==
  /\ At(h, "unlock") /\ job[h].pledged
  /\ LET fits == Combined(job[h].valid) = container.key
     IN  IF container.enveloped /\ ~fits THEN End(h) ELSE Judge(h, container, fits)
  /\ UNCHANGED <<keys, splits, session, custody, pending, calm>>

\* quorum_unlock on shares of the request, its second section: the container is
\* parsed but never unsealed, so an envelope is verified as the placeholder it
\* is parsed into, which no key decrypts.
VerifyPresented(h, container) ==
  /\ At(h, "unlock") /\ ~job[h].pledged
  /\ Judge(h, container, ~container.enveloped /\ Combined(job[h].valid) = container.key)
  /\ UNCHANGED <<keys, splits, session, custody, pending, calm>>

\* quorum_unlock, its end: pledges are consumed by a successful unlock.
EndUnlock(h) ==
  /\ At(h, "verdict")
  /\ LET s == job[h].by
     IN  pending' = IF job[h].passed /\ job[h].pledged THEN [pending EXCEPT ![s] = {}]
                                                     ELSE pending
  /\ End(h)
  /\ UNCHANGED <<keys, splits, session, custody, calm>>

Next ==
  \/ \E s \in Sealants :
       \/ DeriveKey(s)
       \/ SealWithQuorum(s)
  \/ \E h \in Handlers :
       \/ \E s \in Sealants :
            \/ \E roster \in Rosters : BeginDistribute(h, s, roster)
            \/ BeginUnlock(h, s)
            \/ \E xs \in SUBSET (1..Total) : BeginPresent(h, s, xs)
       \/ \E u \in Users : BeginPledge(h, u)
       \/ HandOver(h) \/ EndDistribute(h) \/ EndPledge(h) \/ EndUnlock(h)
       \/ \E container \in Container : VerifyPledged(h, container) \/ VerifyPresented(h, container)

Spec == Init /\ [][Next]_vars

-----------------------------------------------------------------------------
Jobs ==
  {Idle}
  \cup [op : {"distribute"}, by : Sealants, split : 1..MaxSplits, roster : Rosters,
        x : 1..(Total + 1)]
  \cup [op : {"pledge"}, to : Sealants, pledge : Pledge]
  \cup [op : {"unlock"}, by : Sealants, pledged : BOOLEAN, valid : SUBSET Pledge]
  \cup [op : {"verdict"}, by : Sealants, pledged : BOOLEAN, valid : SUBSET Pledge,
        container : Container, passed : BOOLEAN]

\* Type correctness; no two pending pledges of a sealant have the same x, which
\* combine_shares would refuse.
TypeOK ==
  /\ keys \in 0..MaxKeys
  /\ splits \in Seq(1..MaxKeys) /\ Len(splits) <= MaxSplits
  /\ session \in [Sealants -> [key : 0..MaxKeys, split : 0..MaxSplits]]
  /\ custody \in [Users -> SUBSET [share : Share, from : Sealants]]
  /\ pending \in [Sealants -> SUBSET Pledge]
  /\ calm \in BOOLEAN
  /\ job \in [Handlers -> Jobs]
  /\ \A s \in Sealants : \A p, q \in pending[s] : p.share.x = q.share.x => p = q

\* Whatever requests run in parallel, and however many splits, keys and stale
\* pledges there are, an unlock that reaches its verdict passes exactly for a
\* container sealed under the key its shares were split from - when GF(251) has
\* the bytes of that key, and unless the container is an envelope presented
\* together with the shares, which never passes.
VerdictExact ==
  \A h \in Handlers : At(h, "verdict") =>
    LET c == job[h].container
    IN  job[h].passed <=>
          /\ c.enveloped => job[h].pledged
          /\ \A p \in job[h].valid : splits[p.share.split] = c.key /\ c.key \in Exact

\* "Cross-account multiparty authorization" (quorum_distribute): as long as
\* distributions run alone, the pledges of a passed unlock come from Threshold
\* different accounts, however often shares were handed out anew.
OfficersDistinct ==
  \A h \in Handlers :
    calm /\ At(h, "verdict") /\ job[h].passed /\ job[h].pledged =>
      Cardinality({ p.by : p \in job[h].valid }) >= Threshold

\* quorum_pledge "commits their officer share toward the sealant's unlock": as
\* long as distributions run alone, a share of the current split is among the
\* pledges when its holder is answered "pledged".
PledgeKept ==
  [][\A h \in Handlers :
       At(h, "pledge") /\ calm =>
         LET p == job[h].pledge
             to == job[h].to
         IN  job'[h] = Idle /\ p.share.split = session[to].split
               => \E q \in pending'[to] : q.share = p.share]_vars
=============================================================================
