----------------------------- MODULE LockOrder ------------------------------
(***************************************************************************)
(* The mutexes of the server and the order in which its requests take them *)
(* (server/src/doc_api.rs, qds_api.rs, auth.rs).  A request is the script  *)
(* of its acquisitions and releases; two threads run any two requests and  *)
(* wait for each other's locks.  A script is the longest way of a request. *)
(*                                                                         *)
(* Locks: the map of workspaces, a workspace for each account, the ledger, *)
(* the relay mailbox, the notary's holder, the notary in it, the last      *)
(* signature and the event log in it, and the four of accounts.            *)
(***************************************************************************)
EXTENDS Naturals, Sequences, SequencesExt

CONSTANTS
  Threads,       \* of the server
  People         \* accounts; an account is the name of its workspace's lock

\* The locks that are not of one account, and have no account's name here.
ServerLocks == {"map", "fails", "store", "sessions", "relay", "audit", "qds", "trent", "last", "log"}

ASSUME LockAssumption == Threads \subseteq Nat \ {0} /\ People \cap ServerLocks = {}

VARIABLES
  script,     \* of each thread: what is left of its request
  holder      \* of each lock: the thread that has it, or Nobody

lockVars == <<script, holder>>

Nobody == 0

\* A lock taken and released with nothing locked in between; and one that is held
\* over other steps.
Brief(l) == <<[do |-> "pass", lock |-> l]>>
Holding(l, inner) == <<[do |-> "acquire", lock |-> l]>> \o inner \o <<[do |-> "release", lock |-> l]>>

\* DocStateHolder::workspace: the map is released before the workspace is locked.
Ws(u, inner) == Brief("map") \o Holding(u, inner)
\* audit_append: released before the file is written.
Audited == Brief("audit")
\* The notary for one signature or one verification of a document.
Notarized == Holding("qds", Brief("trent"))

-----------------------------------------------------------------------------
\* The requests of account u, who may name account v.
LoginLocks(u) == Brief("fails") \o Brief("store") \o Brief("sessions") \o Ws(u, <<>>) \o Audited
KeyLocks(u) == Ws(u, <<>>) \o Audited
SealLocks(u) == Ws(u, Audited \o Notarized \o Audited) \o Audited
SendLocks(u, v) ==
  Ws(u, <<>>) \o Audited \o Notarized \o Ws(v, <<>>) \o Ws(v, <<>>) \o Ws(v, <<>>) \o Audited
  \o Ws(u, <<>>) \o Audited
VerifyInboxLocks(u) == Ws(u, <<>>) \o Ws(u, <<>>) \o Ws(u, <<>>) \o Audited
OpenLocks(u) == Ws(u, <<>>) \o Ws(u, <<>>) \o Ws(u, <<>>) \o Notarized \o Audited
DistributeLocks(u, v) == Ws(u, <<>>) \o Ws(v, <<>>) \o Ws(v, <<>>) \o Ws(u, <<>>) \o Audited
PledgeLocks(u, v) == Ws(u, <<>>) \o Ws(v, <<>>) \o Audited

\* Mutant: the notary is taken first.
TheaterLocksNotaryFirst(v) ==
  Holding("qds", Holding("trent", Ws(v, <<>>))) \o Ws(v, <<>>) \o Ws(v, <<>>) \o Ws(v, <<>>)
  \o Audited \o Audited

\* attack_theater verifies under the victim's workspace lock, and delivers.
TheaterLocks(v) ==
  Ws(v, Notarized) \o Ws(v, <<>>) \o Ws(v, <<>>) \o Ws(v, <<>>) \o Audited \o Audited

ClaimLocks(u) == Brief("relay") \o Ws(u, <<>>) \o Ws(u, <<>>) \o Audited
AttestLocks(u, v) == Ws(u, <<>>) \o Ws(u, <<>>) \o Notarized \o Ws(u, <<>>) \o Ws(v, <<>>) \o Audited
ClearLedgerLocks == Brief("audit")

\* record: the event log.
Recorded == Brief("log")
\* run_verify: the event is recorded under the notary.
RunVerify == Holding("trent", Recorded)

SetupLocks == Holding("qds", Brief("last") \o Brief("trent") \o Recorded)
SignLocks ==
  Holding("qds", Brief("trent") \o Brief("trent") \o Recorded \o RunVerify \o Brief("trent")
                 \o Brief("last"))
BatteryLocks ==
  Holding("qds", Brief("last"))
  \o Holding("qds", Brief("trent") \o Brief("trent") \o RunVerify \o Brief("trent") \o RunVerify)
ConsensusLocks == Holding("qds", Brief("last")) \o Holding("qds", Holding("trent", Recorded))
EventsLocks == Holding("qds", Recorded)

OwnRequests(u) ==
  {LoginLocks(u), KeyLocks(u), SealLocks(u), VerifyInboxLocks(u), OpenLocks(u), TheaterLocks(u),
   ClaimLocks(u)}
SharedRequests(u, v) ==
  {SendLocks(u, v), DistributeLocks(u, v), PledgeLocks(u, v), AttestLocks(u, v)}

AccountRequests == UNION { OwnRequests(u) : u \in People }
PairRequests ==
  UNION { SharedRequests(p[1], p[2]) : p \in { q \in People \X People : q[1] # q[2] } }
LabRequests ==
  {ClearLedgerLocks, SetupLocks, SignLocks, BatteryLocks, ConsensusLocks, EventsLocks}

Requests == AccountRequests \cup PairRequests \cup LabRequests

Locks == UNION { { r[i].lock : i \in DOMAIN r } : r \in Requests }

-----------------------------------------------------------------------------
LockInit ==
  /\ script \in [Threads -> Requests]
  /\ holder = [l \in Locks |-> Nobody]

\* A thread's next step: a lock it passes through or acquires must be free, one
\* of its own too, as these mutexes are not reentrant.
LockStep(t) ==
  /\ script[t] # <<>>
  /\ LET step == Head(script[t])
     IN  /\ step.do # "release" => holder[step.lock] = Nobody
         /\ holder' = [holder EXCEPT ![step.lock] = IF step.do = "acquire" THEN t ELSE Nobody]
  /\ script' = [script EXCEPT ![t] = Tail(@)]

LockNext == \E t \in Threads : LockStep(t)

\* A thread whose lock is free gets it in the end: the others have one request
\* each, so nobody takes a lock over and over.
LockFairness == \A t \in Threads : WF_lockVars(LockStep(t))

LockSpec == LockInit /\ [][LockNext]_lockVars /\ LockFairness

-----------------------------------------------------------------------------
\* Whatever the requests, no thread waits for ever: locks are taken in one order
\* (map, workspace, notary's holder, notary, event log or ledger), and no request
\* waits for a lock it has.
EveryRequestIsAnswered == \A t \in Threads : <>(script[t] = <<>>)
=============================================================================
