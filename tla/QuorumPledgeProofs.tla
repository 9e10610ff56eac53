------------------------- MODULE QuorumPledgeProofs -------------------------
(***************************************************************************)
(* Proofs about QuorumPledge: types, and that the verdict of an unlock is  *)
(* exact, for any accounts, sealants, handlers, splits and keys.           *)
(***************************************************************************)
EXTENDS QuorumPledge, FiniteSetTheorems, TLAPS

DistributeJob ==
  [op : {"distribute"}, by : Sealants, split : 1..MaxSplits, roster : Rosters,
   x : 1..(Total + 1)]
PledgeJob == [op : {"pledge"}, to : Sealants, pledge : Pledge]
UnlockJob == [op : {"unlock"}, by : Sealants, pledged : BOOLEAN, valid : SUBSET Pledge]
VerdictJob ==
  [op : {"verdict"}, by : Sealants, pledged : BOOLEAN, valid : SUBSET Pledge,
   container : Container, passed : BOOLEAN]

Verify(h, container) == VerifyPledged(h, container) \/ VerifyPresented(h, container)

\* The verdict on a container: under the combined key, and never on an envelope
\* that came with the shares.
Fits(u, container) ==
  (container.enveloped => u.pledged) /\ Combined(u.valid) = container.key

VerdictOf(u, container, passed) ==
  [op |-> "verdict", by |-> u.by, pledged |-> u.pledged, valid |-> u.valid,
   container |-> container, passed |-> passed]

\* What a handler is at tells what it carries.
LEMMA JobKinds ==
  ASSUME NEW j \in Jobs
  PROVE  /\ j.op = "distribute" => j \in DistributeJob
         /\ j.op = "pledge" => j \in PledgeJob
         /\ j.op = "unlock" => j \in UnlockJob
         /\ j.op = "verdict" => j \in VerdictJob
<1>1. CASE j \in {Idle}
  BY <1>1 DEF Idle
<1>2. CASE j \in DistributeJob
  BY <1>2 DEF DistributeJob
<1>3. CASE j \in PledgeJob
  BY <1>3 DEF PledgeJob
<1>4. CASE j \in UnlockJob
  BY <1>4 DEF UnlockJob
<1>5. CASE j \in VerdictJob
  BY <1>5 DEF VerdictJob
<1>6. QED
  BY <1>1, <1>2, <1>3, <1>4, <1>5 DEF Jobs, DistributeJob, PledgeJob, UnlockJob, VerdictJob

\* The second section of an unlock reaches a verdict or ends with an error.
LEMMA Judged ==
  ASSUME TypeOK, NEW h \in Handlers, NEW container \in Container, Verify(h, container)
  PROVE  /\ job[h].op = "unlock" /\ job[h] \in UnlockJob
         /\ UNCHANGED <<keys, splits, session, custody, pending, calm>>
         /\ \/ job' = [job EXCEPT ![h] = Idle]
            \/ job' = [job EXCEPT ![h] = VerdictOf(job[h], container, Fits(job[h], container))]
<1>1. job[h].op = "unlock" /\ UNCHANGED <<keys, splits, session, custody, pending, calm>>
  BY DEF Verify, VerifyPledged, VerifyPresented, At
<1>2. job[h] \in UnlockJob
  BY <1>1, JobKinds DEF TypeOK
<1> DEFINE fits == Combined(job[h].valid) = container.key
<1>3. container.enveloped \in BOOLEAN /\ job[h].pledged \in BOOLEAN
  BY <1>2 DEF Container, UnlockJob
<1>4. CASE VerifyPledged(h, container)
  <2>1. CASE container.enveloped /\ ~fits
    <3>1. job' = [job EXCEPT ![h] = Idle]
      BY <1>4, <2>1 DEF VerifyPledged, End
    <3>2. QED
      BY <1>1, <1>2, <3>1
  <2>2. CASE ~(container.enveloped /\ ~fits)
    <3>1. job' = [job EXCEPT ![h] = VerdictOf(job[h], container, fits)] /\ job[h].pledged
      BY <1>4, <2>2 DEF VerifyPledged, Judge, VerdictOf
    <3>2. fits = Fits(job[h], container)
      BY <3>1 DEF Fits
    <3>3. QED
      BY <1>1, <1>2, <3>1, <3>2
  <2>3. QED
    BY <2>1, <2>2
<1>5. CASE VerifyPresented(h, container)
  <2>1. /\ job' = [job EXCEPT ![h] = VerdictOf(job[h], container, ~container.enveloped /\ fits)]
        /\ ~job[h].pledged
    BY <1>5 DEF VerifyPresented, Judge, VerdictOf
  <2>2. (~container.enveloped /\ fits) = Fits(job[h], container)
    BY <1>3, <2>1 DEF Fits
  <2>3. QED
    BY <1>1, <1>2, <2>1, <2>2
<1>6. QED
  BY <1>4, <1>5 DEF Verify

\* And conversely.
LEMMA KindsAreJobs ==
  /\ Idle \in Jobs
  /\ DistributeJob \subseteq Jobs /\ PledgeJob \subseteq Jobs
  /\ UnlockJob \subseteq Jobs /\ VerdictJob \subseteq Jobs
BY DEF Jobs, DistributeJob, PledgeJob, UnlockJob, VerdictJob

-----------------------------------------------------------------------------
\* The initial state is typed.
LEMMA TypeCorrectInit == Init => TypeOK
<1>1. SUFFICES ASSUME Init PROVE TypeOK
  OBVIOUS
<1>2. keys \in 0..MaxKeys /\ splits \in Seq(1..MaxKeys) /\ Len(splits) <= MaxSplits
  BY <1>1, QuorumAssumption DEF Init
<1>3. session \in [Sealants -> [key : 0..MaxKeys, split : 0..MaxSplits]]
  BY <1>1, QuorumAssumption DEF Init, None
<1>4. /\ custody \in [Users -> SUBSET [share : Share, from : Sealants]]
      /\ pending \in [Sealants -> SUBSET Pledge]
      /\ \A s \in Sealants : \A p, q \in pending[s] : p.share.x = q.share.x => p = q
  BY <1>1 DEF Init
<1>5. calm \in BOOLEAN /\ job \in [Handlers -> Jobs]
  BY <1>1, KindsAreJobs DEF Init
<1>6. QED
  BY <1>2, <1>3, <1>4, <1>5 DEF TypeOK

\* A request of several sections keeps the types when it starts.
LEMMA StartType ==
  ASSUME TypeOK, NEW h \in Handlers, NEW what \in Jobs, Start(h, what)
  PROVE  job' \in [Handlers -> Jobs] /\ calm' \in BOOLEAN
BY DEF Start, TypeOK

\* A request that stays in one section of a lock keeps them.
LEMMA AtOnceType ==
  ASSUME TypeOK, AtOnce
  PROVE  job' \in [Handlers -> Jobs] /\ calm' \in BOOLEAN
BY DEF AtOnce, TypeOK

\* So does a request when it ends.
LEMMA EndType ==
  ASSUME TypeOK, NEW h \in Handlers, End(h)
  PROVE  job' \in [Handlers -> Jobs]
BY KindsAreJobs DEF End, TypeOK

\* Every step keeps the types.
LEMMA TypeCorrectStep == TypeOK /\ [Next]_vars => TypeOK'
<1> SUFFICES ASSUME TypeOK, [Next]_vars PROVE TypeOK'
  OBVIOUS
<1> USE QuorumAssumption
<1>1. ASSUME NEW s \in Sealants, DeriveKey(s) PROVE TypeOK'
  <2>1. keys' \in 0..MaxKeys /\ session' \in [Sealants -> [key : 0..MaxKeys, split : 0..MaxSplits]]
    <3>1. keys + 1 \in 0..MaxKeys
      BY <1>1 DEF DeriveKey, TypeOK
    <3>2. keys' = keys + 1 /\ session' = [session EXCEPT ![s].key = keys + 1]
      BY <1>1 DEF DeriveKey
    <3>3. [session[s] EXCEPT !.key = keys + 1] \in [key : 0..MaxKeys, split : 0..MaxSplits]
      BY <3>1 DEF TypeOK
    <3>4. QED
      BY <3>1, <3>2, <3>3 DEF TypeOK
  <2>2. job' \in [Handlers -> Jobs] /\ calm' \in BOOLEAN
    BY <1>1, AtOnceType DEF DeriveKey
  <2>3. UNCHANGED <<splits, custody, pending>>
    BY <1>1 DEF DeriveKey
  <2>4. QED
    BY <2>1, <2>2, <2>3 DEF TypeOK
<1>2. ASSUME NEW s \in Sealants, SealWithQuorum(s) PROVE TypeOK'
  <2>1. session[s].key \in 1..MaxKeys /\ Len(splits) \in Nat /\ Len(splits) < MaxSplits
    BY <1>2 DEF SealWithQuorum, TypeOK, None
  <2>2. splits' \in Seq(1..MaxKeys) /\ Len(splits') <= MaxSplits
    BY <1>2, <2>1 DEF SealWithQuorum, TypeOK
  <2>3. session' \in [Sealants -> [key : 0..MaxKeys, split : 0..MaxSplits]]
    BY <1>2, <2>1 DEF SealWithQuorum, TypeOK
  <2>4. /\ pending' \in [Sealants -> SUBSET Pledge]
        /\ \A u \in Sealants : \A p, q \in pending'[u] : p.share.x = q.share.x => p = q
    BY <1>2 DEF SealWithQuorum, TypeOK
  <2>5. job' \in [Handlers -> Jobs] /\ calm' \in BOOLEAN
    BY <1>2, AtOnceType DEF SealWithQuorum
  <2>6. QED
    BY <1>2, <2>2, <2>3, <2>4, <2>5 DEF SealWithQuorum, TypeOK
<1>3. ASSUME NEW h \in Handlers, NEW s \in Sealants, NEW roster \in Rosters,
             BeginDistribute(h, s, roster)
      PROVE  TypeOK'
  <2> DEFINE what == [op |-> "distribute", by |-> s, split |-> session[s].split,
                      roster |-> roster, x |-> 1]
  <2>1. session[s].split \in 1..MaxSplits
    BY <1>3 DEF BeginDistribute, TypeOK, None
  <2>2. what \in Jobs
    BY <2>1, KindsAreJobs DEF DistributeJob
  <2>3. job' \in [Handlers -> Jobs] /\ calm' \in BOOLEAN
    BY <1>3, <2>2, StartType DEF BeginDistribute
  <2>4. QED
    BY <1>3, <2>3 DEF BeginDistribute, TypeOK
<1>4. ASSUME NEW h \in Handlers, HandOver(h) PROVE TypeOK'
  <2> DEFINE d == job[h]
  <2>1. d \in DistributeJob /\ d.x <= Total
    BY <1>4, JobKinds DEF HandOver, TypeOK, At
  <2>2. /\ d.roster \in [1..Total -> Users] /\ d.x \in 1..Total
        /\ [split |-> d.split, x |-> d.x] \in Share /\ d.by \in Sealants
    BY <2>1 DEF DistributeJob, Share
  <2>3. custody' \in [Users -> SUBSET [share : Share, from : Sealants]]
    <3> DEFINE slot == {[share |-> [split |-> d.split, x |-> d.x], from |-> d.by]}
    <3>1. slot \in SUBSET [share : Share, from : Sealants]
      BY <2>2
    <3>2. custody' = [custody EXCEPT ![d.roster[d.x]] = slot]
      BY <1>4 DEF HandOver
    <3> HIDE DEF slot
    <3>3. QED
      BY <3>1, <3>2, <2>2 DEF TypeOK
  <2>4. [d EXCEPT !.x = @ + 1] \in DistributeJob
    <3>1. d.x + 1 \in 1..(Total + 1)
      BY <2>1, <2>2
    <3> HIDE DEF d
    <3>2. QED
      BY <2>1, <3>1 DEF DistributeJob
  <2>5. job' \in [Handlers -> Jobs]
    <3>1. job' = [job EXCEPT ![h] = [d EXCEPT !.x = @ + 1]]
      BY <1>4 DEF HandOver
    <3>2. QED
      BY <2>4, <3>1, KindsAreJobs DEF TypeOK
  <2>6. QED
    BY <1>4, <2>3, <2>5 DEF HandOver, TypeOK
<1>5. ASSUME NEW h \in Handlers, EndDistribute(h) PROVE TypeOK'
  BY <1>5, EndType DEF EndDistribute, TypeOK
<1>6. ASSUME NEW h \in Handlers, NEW u \in Users, BeginPledge(h, u) PROVE TypeOK'
  <2>1. PICK c \in custody[u] :
          Start(h, [op |-> "pledge", to |-> c.from, pledge |-> [share |-> c.share, by |-> u]])
    BY <1>6 DEF BeginPledge
  <2> DEFINE what == [op |-> "pledge", to |-> c.from, pledge |-> [share |-> c.share, by |-> u]]
  <2>2. c \in [share : Share, from : Sealants]
    BY <2>1 DEF TypeOK
  <2>3. what \in Jobs
    BY <2>2, KindsAreJobs DEF PledgeJob, Pledge
  <2>4. job' \in [Handlers -> Jobs] /\ calm' \in BOOLEAN
    BY <2>1, <2>3, StartType
  <2>5. QED
    BY <1>6, <2>4 DEF BeginPledge, TypeOK
<1>7. ASSUME NEW h \in Handlers, EndPledge(h) PROVE TypeOK'
  <2> DEFINE to == job[h].to
             p == job[h].pledge
  <2>1. to \in Sealants /\ p \in Pledge
    BY <1>7, JobKinds DEF EndPledge, TypeOK, At, PledgeJob
  <2>2. /\ pending' \in [Sealants -> SUBSET Pledge]
        /\ \A s \in Sealants : \A q, r \in pending'[s] : q.share.x = r.share.x => q = r
    <3>1. CASE \E q \in pending[to] : q.share.x = p.share.x
      BY <1>7, <3>1 DEF EndPledge, TypeOK
    <3>2. CASE ~ \E q \in pending[to] : q.share.x = p.share.x
      <4>1. pending' = [pending EXCEPT ![to] = @ \cup {p}]
        BY <1>7, <3>2 DEF EndPledge
      <4>2. \A s \in Sealants : pending'[s] = IF s = to THEN pending[s] \cup {p} ELSE pending[s]
        BY <2>1, <4>1 DEF TypeOK
      <4>3. pending' \in [Sealants -> SUBSET Pledge]
        BY <2>1, <4>1 DEF TypeOK
      <4>4. ASSUME NEW s \in Sealants, NEW q \in pending'[s], NEW r \in pending'[s],
                   q.share.x = r.share.x
            PROVE  q = r
        <5>1. CASE s # to
          BY <4>2, <4>4, <5>1 DEF TypeOK
        <5>2. CASE s = to
          <6> HIDE DEF p
          <6>1. q \in pending[to] \cup {p} /\ r \in pending[to] \cup {p}
            BY <4>2, <4>4, <5>2
          <6>2. \A z \in pending[to] : z.share.x # p.share.x
            BY <3>2
          <6>3. QED
            BY <4>4, <6>1, <6>2, <2>1 DEF TypeOK
        <5>3. QED
          BY <5>1, <5>2
      <4>5. QED
        BY <4>3, <4>4
    <3>3. QED
      BY <3>1, <3>2
  <2>3. job' \in [Handlers -> Jobs]
    BY <1>7, EndType DEF EndPledge
  <2>4. QED
    BY <1>7, <2>2, <2>3 DEF EndPledge, TypeOK
<1>8. ASSUME NEW h \in Handlers, NEW s \in Sealants, BeginUnlock(h, s) PROVE TypeOK'
  <2> DEFINE what == [op |-> "unlock", by |-> s, pledged |-> TRUE,
                      valid |-> Recognized(s, pending[s])]
  <2>1. Recognized(s, pending[s]) \subseteq Pledge
    BY DEF Recognized, TypeOK
  <2>2. what \in Jobs
    BY <2>1, KindsAreJobs DEF UnlockJob
  <2>3. job' \in [Handlers -> Jobs] /\ calm' \in BOOLEAN
    BY <1>8, <2>2, StartType DEF BeginUnlock
  <2>4. QED
    BY <1>8, <2>3 DEF BeginUnlock, TypeOK
<1>9. ASSUME NEW h \in Handlers, NEW s \in Sealants, NEW xs \in SUBSET (1..Total),
             BeginPresent(h, s, xs)
      PROVE  TypeOK'
  <2> DEFINE valid == { [share |-> [split |-> session[s].split, x |-> x], by |-> s] : x \in xs }
             what == [op |-> "unlock", by |-> s, pledged |-> FALSE, valid |-> valid]
  <2>1. session[s].split \in 1..MaxSplits
    BY <1>9 DEF BeginPresent, TypeOK, None
  <2>2. valid \subseteq Pledge
    BY <2>1 DEF Pledge, Share
  <2>3. what \in Jobs
    BY <2>2, KindsAreJobs DEF UnlockJob
  <2>4. job' \in [Handlers -> Jobs] /\ calm' \in BOOLEAN
    BY <1>9, <2>3, StartType DEF BeginPresent
  <2>5. QED
    BY <1>9, <2>4 DEF BeginPresent, TypeOK
<1>10. ASSUME NEW h \in Handlers, NEW container \in Container, Verify(h, container)
       PROVE  TypeOK'
  <2> DEFINE what == VerdictOf(job[h], container, Fits(job[h], container))
  <2>1. /\ job[h] \in UnlockJob /\ UNCHANGED <<keys, splits, session, custody, pending, calm>>
        /\ job' = [job EXCEPT ![h] = Idle] \/ job' = [job EXCEPT ![h] = what]
    BY <1>10, Judged
  <2>2. Fits(job[h], container) \in BOOLEAN
    BY DEF Fits
  <2>3. what \in VerdictJob
    BY <2>1, <2>2 DEF UnlockJob, VerdictJob, VerdictOf
  <2> HIDE DEF what
  <2>4. job' \in [Handlers -> Jobs]
    BY <2>1, <2>3, KindsAreJobs DEF TypeOK
  <2>5. QED
    BY <2>1, <2>4 DEF TypeOK
<1>11. ASSUME NEW h \in Handlers, EndUnlock(h) PROVE TypeOK'
  <2>1. job' \in [Handlers -> Jobs]
    BY <1>11, EndType DEF EndUnlock
  <2>2. /\ pending' \in [Sealants -> SUBSET Pledge]
        /\ \A s \in Sealants : \A q, r \in pending'[s] : q.share.x = r.share.x => q = r
    <3>1. pending' = [pending EXCEPT ![job[h].by] = {}] \/ pending' = pending
      BY <1>11 DEF EndUnlock
    <3>2. pending' \in [Sealants -> SUBSET Pledge]
      BY <3>1 DEF TypeOK
    <3>3. \A s \in Sealants : pending'[s] = {} \/ pending'[s] = pending[s]
      BY <3>1 DEF TypeOK
    <3>4. QED
      BY <3>2, <3>3 DEF TypeOK
  <2>3. QED
    BY <1>11, <2>1, <2>2 DEF EndUnlock, TypeOK
<1>12. CASE UNCHANGED vars
  BY <1>12 DEF vars, TypeOK
<1>13. QED
  BY <1>1, <1>2, <1>3, <1>4, <1>5, <1>6, <1>7, <1>8, <1>9, <1>10, <1>11, <1>12 DEF Next, Verify

\* The types hold in every state, for any accounts, handlers and bounds; no two
\* pending pledges of a sealant have the same x, so combine_shares never refuses
\* the pledges of an unlock as duplicates.
THEOREM TypeCorrect == Spec => []TypeOK
BY TypeCorrectInit, TypeCorrectStep, PTL DEF Spec

-----------------------------------------------------------------------------
(***************************************************************************)
(* The inductive invariant: what an unlock has recognized are enough       *)
(* shares of one split, and that split is known.                           *)
(***************************************************************************)
OnRecord == \A s \in Sealants : session[s].split <= Len(splits)

OneSplit(valid) ==
  /\ Cardinality(valid) >= Threshold
  /\ \E n \in 1..Len(splits) : \A p \in valid : p.share.split = n

Same(valid, key) ==
  \A p \in valid : splits[p.share.split] = key /\ key \in Exact

JobExact(h) ==
  /\ At(h, "unlock") \/ At(h, "verdict") => OneSplit(job[h].valid)
  /\ At(h, "verdict") =>
       (job[h].passed <=> /\ job[h].container.enveloped => job[h].pledged
                          /\ Same(job[h].valid, job[h].container.key))

EInv == TypeOK /\ OnRecord /\ \A h \in Handlers : JobExact(h)

\* Enough shares of one split combine to its key exactly when that key is exact.
LEMMA CombinedExact ==
  ASSUME TypeOK, NEW valid, OneSplit(valid), NEW key \in 1..MaxKeys
  PROVE  Combined(valid) = key <=> Same(valid, key)
<1> USE QuorumAssumption
<1>1. PICK n \in 1..Len(splits) : \A p \in valid : p.share.split = n
  BY DEF OneSplit
<1>2. PICK q \in valid : TRUE
  <2>1. valid # {}
    BY FS_EmptySet DEF OneSplit
  <2>2. QED
    BY <2>1
<1>3. { p.share.split : p \in valid } = {n}
  BY <1>1, <1>2
<1>4. Cardinality({n}) = 1
  BY FS_Singleton
<1>5. (CHOOSE k \in {n} : TRUE) = n
  OBVIOUS
<1>6. Combined(valid) = IF splits[n] \in Exact THEN splits[n] ELSE 0
  <2> DEFINE of == { p.share.split : p \in valid }
  <2>1. Combined(valid) =
          IF /\ Cardinality(of) = 1 /\ Cardinality(valid) >= Threshold
             /\ \A k \in of : splits[k] \in Exact
          THEN splits[CHOOSE k \in of : TRUE]
          ELSE 0
    BY DEF Combined, None
  <2>2. of = {n}
    BY <1>3
  <2>3. Cardinality(valid) >= Threshold
    BY DEF OneSplit
  <2> HIDE DEF of
  <2>4. QED
    BY <1>4, <1>5, <2>1, <2>2, <2>3
<1>7. Same(valid, key) <=> splits[n] = key /\ key \in Exact
  BY <1>1, <1>2 DEF Same
<1>8. QED
  BY <1>6, <1>7

\* Splits are only ever added.
LEMMA SplitsGrow ==
  ASSUME TypeOK, [Next]_vars
  PROVE  /\ Len(splits) \in Nat /\ Len(splits') \in Nat /\ Len(splits) <= Len(splits')
         /\ \A n \in 1..Len(splits) : splits'[n] = splits[n]
<1>1. splits' = splits \/ \E k : splits' = Append(splits, k)
  BY DEF Next, vars, DeriveKey, SealWithQuorum, BeginDistribute, HandOver, EndDistribute,
         BeginPledge, EndPledge, BeginUnlock, BeginPresent, VerifyPledged, VerifyPresented, EndUnlock
<1>2. splits \in Seq(1..MaxKeys)
  BY DEF TypeOK
<1>3. CASE splits' = splits
  BY <1>2, <1>3
<1>4. CASE \E k : splits' = Append(splits, k)
  <2>1. PICK k : splits' = Append(splits, k)
    BY <1>4
  <2>2. Len(splits') = Len(splits) + 1 /\ Len(splits) \in Nat
    BY <1>2, <2>1
  <2>3. \A n \in 1..Len(splits) : splits'[n] = splits[n]
    BY <1>2, <2>1
  <2>4. QED
    BY <2>2, <2>3
<1>5. QED
  BY <1>1, <1>3, <1>4

\* A handler that does not move keeps its exactness when splits are added.
LEMMA KeptExact ==
  ASSUME EInv, [Next]_vars, NEW h \in Handlers, job'[h] = job[h]
  PROVE  JobExact(h)'
<1>1. JobExact(h)
  BY DEF EInv
<1>2. /\ Len(splits) \in Nat /\ Len(splits') \in Nat /\ Len(splits) <= Len(splits')
      /\ \A n \in 1..Len(splits) : splits'[n] = splits[n]
  BY SplitsGrow DEF EInv
<1>3. ASSUME NEW valid, OneSplit(valid) PROVE OneSplit(valid)'
  BY <1>2, <1>3 DEF OneSplit
<1>4. ASSUME NEW valid, NEW key, OneSplit(valid)
      PROVE  Same(valid, key)' <=> Same(valid, key)
  <2>1. PICK n \in 1..Len(splits) : \A p \in valid : p.share.split = n
    BY <1>4 DEF OneSplit
  <2>2. splits'[n] = splits[n]
    BY <1>2
  <2>3. QED
    BY <2>1, <2>2 DEF Same
<1>5. QED
  BY <1>1, <1>3, <1>4 DEF JobExact, At

\* A handler that is not at an unlock has nothing to be exact about.
LEMMA OtherExact ==
  ASSUME NEW h \in Handlers, job'[h].op \notin {"unlock", "verdict"}
  PROVE  JobExact(h)'
BY DEF JobExact, At

\* The shares of one split under the numbers xs, as BeginPresent takes them.
Presented(n, s, xs) == { [share |-> [split |-> n, x |-> x], by |-> s] : x \in xs }

\* The shares presented under different numbers are as many as the numbers.
LEMMA PresentedCount ==
  ASSUME NEW xs \in SUBSET (1..Total), NEW n, NEW s
  PROVE  Cardinality(Presented(n, s, xs)) = Cardinality(xs)
<1> DEFINE share(x) == [share |-> [split |-> n, x |-> x], by |-> s]
           f == [x \in xs |-> share(x)]
           T == { share(x) : x \in xs }
<1>1. IsFiniteSet(xs)
  <2>1. IsFiniteSet(1..Total)
    BY FS_Interval, QuorumAssumption
  <2>2. QED
    BY <2>1, FS_Subset
<1>2. f \in [xs -> T] /\ \A t \in T : \E x \in xs : f[x] = t
  OBVIOUS
<1>3. \A x, z \in xs : f[x] = f[z] => x = z
  OBVIOUS
<1>4. f \in Surjection(xs, T) /\ f \in Injection(xs, T)
  BY <1>2, <1>3 DEF Surjection, Injection, IsInjective
<1> HIDE DEF f, T
<1>5. Cardinality(T) = Cardinality(xs)
  BY <1>1, <1>4, FS_Surjection
<1>6. QED
  BY <1>5 DEF T, Presented

\* It holds at the start.
LEMMA ExactInit == Init => EInv
<1> SUFFICES ASSUME Init PROVE EInv
  OBVIOUS
<1>1. OnRecord
  BY DEF Init, OnRecord, None
<1>2. \A h \in Handlers : JobExact(h)
  BY DEF Init, JobExact, At, Idle
<1>3. QED
  BY <1>1, <1>2, TypeCorrectInit DEF EInv

\* The split on record is always one that was made.
LEMMA OnRecordStep ==
  ASSUME EInv, [Next]_vars
  PROVE  OnRecord'
<1>1. /\ Len(splits) \in Nat /\ Len(splits') \in Nat /\ Len(splits) <= Len(splits')
  BY SplitsGrow DEF EInv
<1>2. \A s \in Sealants : session[s].split \in Nat /\ session[s].split <= Len(splits)
  BY DEF EInv, OnRecord, TypeOK
<1>3. CASE \E s \in Sealants : SealWithQuorum(s)
  <2>1. PICK s \in Sealants : SealWithQuorum(s)
    BY <1>3
  <2>2. Len(splits') = Len(splits) + 1
    BY <2>1 DEF SealWithQuorum, EInv, TypeOK
  <2>3. \A u \in Sealants :
          session'[u].split = IF u = s THEN Len(splits) + 1 ELSE session[u].split
    BY <2>1 DEF SealWithQuorum, EInv, TypeOK
  <2>4. QED
    BY <1>1, <1>2, <2>2, <2>3 DEF OnRecord
<1>4. CASE \E s \in Sealants : DeriveKey(s)
  <2>1. \A u \in Sealants : session'[u].split = session[u].split
    BY <1>4 DEF DeriveKey, EInv, TypeOK
  <2>2. QED
    BY <1>1, <1>2, <2>1 DEF OnRecord
<1>5. CASE session' = session
  BY <1>1, <1>2, <1>5 DEF OnRecord
<1>6. QED
  BY <1>3, <1>4, <1>5
     DEF Next, vars, BeginDistribute, HandOver, EndDistribute,
         BeginPledge, EndPledge, BeginUnlock, BeginPresent, VerifyPledged, VerifyPresented, EndUnlock

\* Where a handler has moved to, one action at a time.
LEMMA JobExactStep ==
  ASSUME EInv, [Next]_vars, NEW h \in Handlers
  PROVE  JobExact(h)'
<1> USE QuorumAssumption
<1>1. CASE job'[h] = job[h]
  BY <1>1, KeptExact
<1> SUFFICES ASSUME job'[h] # job[h] PROVE JobExact(h)'
  BY <1>1
<1>2. job \in [Handlers -> Jobs] /\ TypeOK /\ OnRecord
  BY DEF EInv, TypeOK
<1>3. ASSUME NEW g \in Handlers, NEW what, job' = [job EXCEPT ![g] = what]
      PROVE  g = h /\ job'[h] = what
  BY <1>2, <1>3
<1>4. ASSUME NEW s \in Sealants, DeriveKey(s) \/ SealWithQuorum(s) PROVE FALSE
  BY <1>4 DEF DeriveKey, SealWithQuorum, AtOnce
<1>5. ASSUME NEW g \in Handlers, NEW s \in Sealants, NEW roster \in Rosters,
             BeginDistribute(g, s, roster)
      PROVE  JobExact(h)'
  <2>1. job'[h].op = "distribute"
    BY <1>3, <1>5 DEF BeginDistribute, Start
  <2>2. QED
    BY <2>1, OtherExact
<1>6. ASSUME NEW g \in Handlers, HandOver(g) PROVE JobExact(h)'
  <2> DEFINE d == job[g]
  <2>1. job' = [job EXCEPT ![g] = [d EXCEPT !.x = @ + 1]] /\ d \in DistributeJob
    <3>1. job' = [job EXCEPT ![g] = [d EXCEPT !.x = @ + 1]]
      BY <1>6 DEF HandOver
    <3>2. QED
      BY <1>2, <1>6, <3>1, JobKinds DEF HandOver, At
  <2>2. job'[h].op = "distribute"
    <3>1. job'[h] = [d EXCEPT !.x = @ + 1]
      BY <1>3, <2>1
    <3>2. QED
      BY <2>1, <3>1 DEF DistributeJob
  <2>3. QED
    BY <2>2, OtherExact
<1>7. ASSUME NEW g \in Handlers, EndDistribute(g) \/ EndPledge(g) \/ EndUnlock(g)
      PROVE  JobExact(h)'
  <2>1. job' = [job EXCEPT ![g] = Idle]
    BY <1>7 DEF EndDistribute, EndPledge, EndUnlock, End
  <2>2. job'[h].op = "idle"
    BY <1>3, <2>1 DEF Idle
  <2>3. QED
    BY <2>2, OtherExact
<1>8. ASSUME NEW g \in Handlers, NEW u \in Users, BeginPledge(g, u) PROVE JobExact(h)'
  <2>1. job'[h].op = "pledge"
    BY <1>3, <1>8 DEF BeginPledge, Start
  <2>2. QED
    BY <2>1, OtherExact
<1>9. ASSUME NEW valid, splits' = splits, job'[h].op = "unlock", job'[h].valid = valid,
             Cardinality(valid) >= Threshold, NEW s \in Sealants, session[s].split # None,
             \A p \in valid : p.share.split = session[s].split
      PROVE  JobExact(h)'
  <2>1. session[s].split \in 1..Len(splits)
    BY <1>2, <1>9 DEF TypeOK, OnRecord, None
  <2>2. OneSplit(valid)'
    BY <1>9, <2>1 DEF OneSplit
  <2>3. QED
    BY <1>9, <2>2 DEF JobExact, At
<1>10. ASSUME NEW g \in Handlers, NEW s \in Sealants, BeginUnlock(g, s) PROVE JobExact(h)'
  <2> DEFINE valid == Recognized(s, pending[s])
  <2>1. /\ session[s].split # None /\ Cardinality(valid) >= Threshold /\ splits' = splits
        /\ job'[h].op = "unlock" /\ job'[h].valid = valid
    BY <1>3, <1>10 DEF BeginUnlock, Start
  <2>2. \A p \in valid : p.share.split = session[s].split
    BY DEF Recognized
  <2>3. QED
    BY <1>9, <2>1, <2>2
<1>11. ASSUME NEW g \in Handlers, NEW s \in Sealants, NEW xs \in SUBSET (1..Total),
              BeginPresent(g, s, xs)
       PROVE  JobExact(h)'
  <2> DEFINE valid == Presented(session[s].split, s, xs)
  <2>1. /\ session[s].split # None /\ Cardinality(xs) >= Threshold /\ splits' = splits
        /\ job'[h].op = "unlock" /\ job'[h].valid = valid
    BY <1>3, <1>11 DEF BeginPresent, Start, Presented
  <2>2. Cardinality(valid) >= Threshold
    BY <2>1, PresentedCount
  <2>3. \A p \in valid : p.share.split = session[s].split
    BY DEF Presented
  <2>4. QED
    BY <1>9, <2>1, <2>2, <2>3
<1>12. ASSUME NEW g \in Handlers, NEW container \in Container, Verify(g, container)
       PROVE  JobExact(h)'
  <2> DEFINE what == VerdictOf(job[g], container, Fits(job[g], container))
  <2>1. /\ job[g].op = "unlock" /\ splits' = splits
        /\ job' = [job EXCEPT ![g] = Idle] \/ job' = [job EXCEPT ![g] = what]
    BY <1>12, Judged DEF EInv
  <2>2. CASE job' = [job EXCEPT ![g] = Idle]
    BY <1>3, <2>2, OtherExact DEF Idle
  <2>3. CASE job' = [job EXCEPT ![g] = what]
    <3>1. job'[h] = what
      BY <1>3, <2>3
    <3>2. PICK valid, pledged : valid = job[g].valid /\ pledged = job[g].pledged
      OBVIOUS
    <3>3. PICK passed : passed = Fits(job[g], container)
      OBVIOUS
    <3>4. /\ job'[h].valid = valid /\ job'[h].container = container /\ job'[h].passed = passed
          /\ job'[h].pledged = pledged
      BY <3>1, <3>2, <3>3 DEF VerdictOf
    <3>5. OneSplit(valid) /\ container.key \in 1..MaxKeys
      BY <2>1, <3>2 DEF EInv, JobExact, At, Container
    <3>6. passed <=> (container.enveloped => pledged) /\ Same(valid, container.key)
      BY <1>2, <3>2, <3>3, <3>5, CombinedExact DEF Fits
    <3>7. OneSplit(valid)' /\ (Same(valid, container.key)' <=> Same(valid, container.key))
      BY <2>1, <3>5 DEF OneSplit, Same
    <3>8. QED
      BY <3>4, <3>6, <3>7 DEF JobExact
  <2>4. QED
    BY <2>1, <2>2, <2>3
<1>13. CASE UNCHANGED vars
  BY <1>13 DEF vars
<1>14. QED
  BY <1>4, <1>5, <1>6, <1>7, <1>8, <1>10, <1>11, <1>12, <1>13 DEF Next, Verify

\* Every step keeps it.
LEMMA ExactStep == EInv /\ [Next]_vars => EInv'
BY TypeCorrectStep, OnRecordStep, JobExactStep DEF EInv

\* Whatever splits, distributions and pledges came before or come in between, an
\* unlock passes exactly for a container sealed under the key its shares were
\* split from, if the field has the bytes of that key, and never for an envelope
\* that came with the shares: no stale or mixed share ever turns a verdict, for
\* any threshold and any number of accounts.
THEOREM VerdictAlwaysExact == Spec => []VerdictExact
<1>1. EInv => VerdictExact
  BY DEF EInv, JobExact, Same, VerdictExact
<1>2. QED
  BY <1>1, ExactInit, ExactStep, PTL DEF Spec
-----------------------------------------------------------------------------
(***************************************************************************)
(* That a passed unlock needs Threshold accounts.  A sealant's claims are  *)
(* the pledges it has, those on their way to it and those its shares in    *)
(* custody may still become.  While distributions run alone, claims of one *)
(* account for one split agree: the share an account holds changes only    *)
(* by a distribution, whose end drops the pledges made before.             *)
(***************************************************************************)
Claim(s, p) ==
  \/ p \in pending[s]
  \/ \E h \in Handlers : At(h, "pledge") /\ job[h].to = s /\ job[h].pledge = p
  \/ \E c \in custody[p.by] : c.from = s /\ c.share = p.share

Agree(s) ==
  \A p, q \in Pledge :
    Claim(s, p) /\ Claim(s, q) /\ p.by = q.by /\ p.share.split = q.share.split => p = q

\* No distribution of the sealant is under way.
Settled(s) == \A g \in Handlers : At(g, "distribute") => job[g].by # s

OneSlot == \A u \in Users : \A c, d \in custody[u] : c = d
Alone == \A g, h \in Handlers : At(g, "distribute") /\ ~At(h, "idle") => g = h

\* Different pledges of an unlock are of different shares, by different accounts.
Officers(valid) == \A p, q \in valid : p.by = q.by \/ p.share.x = q.share.x => p = q

UnlockOfficers(h) ==
  (At(h, "unlock") \/ At(h, "verdict")) /\ job[h].pledged => Officers(job[h].valid)

OfficersInv ==
  /\ EInv /\ OneSlot
  /\ calm => /\ Alone
             /\ \A s \in Sealants : Settled(s) => Agree(s)
             /\ \A h \in Handlers : UnlockOfficers(h)

\* What a handler moves to is seen at that handler only.
LEMMA MovesOne ==
  ASSUME TypeOK, NEW g \in Handlers, NEW what, job' = [job EXCEPT ![g] = what]
  PROVE  \A h \in Handlers : job'[h] = IF h = g THEN what ELSE job[h]
BY DEF TypeOK

\* At the start there is nothing to claim.
LEMMA OfficersInit == Init => OfficersInv
<1> SUFFICES ASSUME Init PROVE OfficersInv
  OBVIOUS
<1>1. EInv
  BY ExactInit
<1>2. \A h \in Handlers : job[h].op = "idle"
  BY DEF Init, Idle
<1>3. OneSlot
  BY DEF Init, OneSlot
<1>4. Alone
  BY <1>2 DEF Alone, At
<1>5. ASSUME NEW s \in Sealants PROVE Agree(s)
  <2>1. ASSUME NEW p \in Pledge PROVE ~Claim(s, p)
    <3>1. p.by \in Users
      BY DEF Pledge
    <3>2. pending[s] = {} /\ custody[p.by] = {}
      BY <3>1 DEF Init
    <3>3. QED
      BY <1>2, <3>2 DEF Claim, At
  <2>2. QED
    BY <2>1 DEF Agree
<1>6. \A h \in Handlers : UnlockOfficers(h)
  BY <1>2 DEF UnlockOfficers, At
<1>7. QED
  BY <1>1, <1>3, <1>4, <1>5, <1>6 DEF OfficersInv

\* An account never holds more than one share.
LEMMA OneSlotStep ==
  ASSUME TypeOK, OneSlot, [Next]_vars
  PROVE  OneSlot'
<1>1. CASE custody' = custody
  BY <1>1 DEF OneSlot
<1>2. ASSUME NEW h \in Handlers, HandOver(h) PROVE OneSlot'
  <2>1. PICK u, z : custody' = [custody EXCEPT ![u] = {z}]
    BY <1>2 DEF HandOver
  <2>2. \A v \in Users : custody'[v] = {z} \/ custody'[v] = custody[v]
    BY <2>1 DEF TypeOK
  <2>3. QED
    BY <2>2 DEF OneSlot
<1>3. QED
  BY <1>1, <1>2
     DEF Next, vars, DeriveKey, SealWithQuorum, BeginDistribute, EndDistribute,
         BeginPledge, EndPledge, BeginUnlock, BeginPresent, VerifyPledged, VerifyPresented, EndUnlock

\* A distribution that began alone stays alone, or the run is no longer calm.
LEMMA AloneStep ==
  ASSUME TypeOK, calm => Alone, [Next]_vars, calm'
  PROVE  calm /\ Alone'
<1> USE DEF At
<1>1. ASSUME NEW h \in Handlers, NEW what, Start(h, what) PROVE calm /\ Alone'
  <2>1. calm /\ Distributing = {} /\ (what.op = "distribute" => Busy = {})
    BY <1>1 DEF Start
  <2>2. \A g \in Handlers : job'[g] = IF g = h THEN what ELSE job[g]
    BY <1>1, MovesOne DEF Start
  <2>3. CASE what.op = "distribute"
    <3>1. \A g \in Handlers : job[g].op = "idle"
      BY <2>1, <2>3 DEF Busy
    <3>2. QED
      BY <2>1, <2>2, <3>1 DEF Alone
  <2>4. CASE what.op # "distribute"
    <3>1. \A g \in Handlers : job[g].op # "distribute"
      BY <2>1 DEF Distributing
    <3>2. QED
      BY <2>1, <2>2, <2>4, <3>1 DEF Alone
  <2>5. QED
    BY <2>3, <2>4
<1>2. ASSUME AtOnce PROVE calm /\ Alone'
  BY <1>2 DEF AtOnce, Alone
<1>3. ASSUME NEW h \in Handlers, calm' = calm, NEW what, job' = [job EXCEPT ![h] = what],
             what.op # "distribute", job[h].op # "idle"
      PROVE  calm /\ Alone'
  <2>1. \A g \in Handlers : job'[g] = IF g = h THEN what ELSE job[g]
    BY <1>3, MovesOne
  <2>2. QED
    BY <1>3, <2>1 DEF Alone
<1>4. ASSUME NEW h \in Handlers, EndDistribute(h) \/ EndPledge(h) \/ EndUnlock(h)
      PROVE  calm /\ Alone'
  <2>1. job' = [job EXCEPT ![h] = Idle] /\ calm' = calm /\ job[h].op # "idle"
    BY <1>4 DEF EndDistribute, EndPledge, EndUnlock, End
  <2>2. Idle.op # "distribute"
    BY DEF Idle
  <2>3. QED
    BY <1>3, <2>1, <2>2
<1>5. ASSUME NEW h \in Handlers, HandOver(h) PROVE calm /\ Alone'
  <2>1. PICK d : d = job[h]
    OBVIOUS
  <2>2. d \in DistributeJob /\ job' = [job EXCEPT ![h] = [d EXCEPT !.x = @ + 1]] /\ calm' = calm
    BY <1>5, <2>1, JobKinds DEF HandOver, TypeOK
  <2>3. [d EXCEPT !.x = @ + 1].op = "distribute"
    BY <2>2 DEF DistributeJob
  <2>4. \A g \in Handlers : job'[g].op = job[g].op
    <3>1. d.op = "distribute"
      BY <1>5, <2>1 DEF HandOver
    <3>2. \A g \in Handlers : job'[g] = IF g = h THEN [d EXCEPT !.x = @ + 1] ELSE job[g]
      BY <2>2, MovesOne
    <3>3. QED
      BY <2>1, <2>3, <3>1, <3>2
  <2>5. QED
    BY <2>2, <2>4 DEF Alone
<1>6. ASSUME NEW h \in Handlers, NEW container \in Container, Verify(h, container)
      PROVE  calm /\ Alone'
  <2>1. PICK what : /\ what = Idle \/ what = VerdictOf(job[h], container, Fits(job[h], container))
                    /\ job' = [job EXCEPT ![h] = what]
    BY <1>6, Judged
  <2>2. what.op # "distribute"
    BY <2>1 DEF VerdictOf, Idle
  <2>3. calm' = calm /\ job[h].op # "idle"
    BY <1>6, Judged
  <2>4. QED
    BY <1>3, <2>1, <2>2, <2>3
<1>7. CASE UNCHANGED vars
  BY <1>7 DEF vars, Alone
<1>8. QED
  BY <1>1, <1>2, <1>4, <1>5, <1>6, <1>7
     DEF Next, Verify, DeriveKey, SealWithQuorum, BeginDistribute, BeginPledge, BeginUnlock,
         BeginPresent

\* Every step but the end of a sealant's own distribution only drops claims of
\* the sealant, or turns one form of a claim into the next.
LEMMA ClaimsShrink ==
  ASSUME TypeOK, [Next]_vars, NEW s \in Sealants, Settled(s)',
         \A g \in Handlers : EndDistribute(g) => job[g].by # s
  PROVE  Settled(s) /\ \A p \in Pledge : Claim(s, p)' => Claim(s, p)
<1> USE DEF At
<1>0. \A p \in Pledge : p.by \in Users
  BY DEF Pledge
<1>moves. ASSUME NEW h \in Handlers, NEW what, job' = [job EXCEPT ![h] = what]
      PROVE  \A g \in Handlers : job'[g] = IF g = h THEN what ELSE job[g]
  BY <1>moves, MovesOne
<1>1. ASSUME NEW h \in Handlers, NEW what, job' = [job EXCEPT ![h] = what],
             job[h].op # "distribute", what.op # "pledge",
             custody' = custody, pending'[s] \subseteq pending[s]
      PROVE  Settled(s) /\ \A p \in Pledge : Claim(s, p)' => Claim(s, p)
  <2>1. \A g \in Handlers : job'[g] = IF g = h THEN what ELSE job[g]
    BY <1>1, <1>moves
  <2>2. Settled(s)
    BY <1>1, <2>1 DEF Settled
  <2>3. QED
    BY <1>1, <2>1, <2>2 DEF Claim
<1>2. ASSUME job' = job, custody' = custody, pending'[s] \subseteq pending[s]
      PROVE  Settled(s) /\ \A p \in Pledge : Claim(s, p)' => Claim(s, p)
  BY <1>2 DEF Settled, Claim
<1>3. ASSUME NEW u \in Sealants, DeriveKey(u) \/ SealWithQuorum(u)
      PROVE  Settled(s) /\ \A p \in Pledge : Claim(s, p)' => Claim(s, p)
  <2>1. pending'[s] \subseteq pending[s]
    BY <1>3 DEF DeriveKey, SealWithQuorum, TypeOK
  <2>2. QED
    BY <1>2, <1>3, <2>1 DEF DeriveKey, SealWithQuorum, AtOnce
<1>4. ASSUME NEW h \in Handlers, NEW u \in Sealants, NEW roster \in Rosters,
             BeginDistribute(h, u, roster)
      PROVE  Settled(s) /\ \A p \in Pledge : Claim(s, p)' => Claim(s, p)
  <2> DEFINE what == [op |-> "distribute", by |-> u, split |-> session[u].split,
                      roster |-> roster, x |-> 1]
  <2>1. /\ job' = [job EXCEPT ![h] = what] /\ job[h].op # "distribute"
        /\ custody' = custody /\ pending' = pending
    BY <1>4 DEF BeginDistribute, Start
  <2>2. what.op # "pledge"
    OBVIOUS
  <2> HIDE DEF what
  <2>3. QED
    BY <1>1, <2>1, <2>2
<1>5. ASSUME NEW h \in Handlers, HandOver(h)
      PROVE  Settled(s) /\ \A p \in Pledge : Claim(s, p)' => Claim(s, p)
  <2>1. PICK d : d = job[h]
    OBVIOUS
  <2>2. /\ d \in DistributeJob /\ job' = [job EXCEPT ![h] = [d EXCEPT !.x = @ + 1]]
        /\ pending' = pending /\ d.op = "distribute"
    BY <1>5, <2>1, JobKinds DEF HandOver, TypeOK
  <2>3. PICK e : e = [d EXCEPT !.x = @ + 1]
    OBVIOUS
  <2>4. e.op = "distribute" /\ e.by = d.by
    <3>1. DOMAIN d = {"op", "by", "split", "roster", "x"}
      BY <2>2 DEF DistributeJob
    <3>2. QED
      BY <2>2, <2>3, <3>1
  <2>5. \A g \in Handlers : job'[g] = IF g = h THEN e ELSE job[g]
    <3>1. job' = [job EXCEPT ![h] = e]
      BY <2>2, <2>3, Zenon
    <3>2. QED
      BY <3>1, <1>moves
  <2>6. Settled(s) /\ d.by # s
    BY <2>1, <2>2, <2>4, <2>5 DEF Settled
  <2>7. \A u \in Users : \A c \in custody'[u] : c.from = s => c \in custody[u]
    <3>1. PICK v, z : custody' = [custody EXCEPT ![v] = {z}] /\ z.from = d.by
      <4> DEFINE z == [share |-> [split |-> d.split, x |-> d.x], from |-> d.by]
      <4>1. custody' = [custody EXCEPT ![d.roster[d.x]] = {z}]
        BY <1>5, <2>1 DEF HandOver
      <4>2. z.from = d.by
        OBVIOUS
      <4> HIDE DEF z
      <4>3. QED
        BY <4>1, <4>2
    <3>2. \A u \in Users : custody'[u] = {z} \/ custody'[u] = custody[u]
      BY <3>1 DEF TypeOK
    <3>3. QED
      BY <2>6, <3>1, <3>2
  <2>8. QED
    BY <1>0, <2>1, <2>2, <2>4, <2>5, <2>6, <2>7 DEF Claim
<1>6. ASSUME NEW h \in Handlers, EndDistribute(h)
      PROVE  Settled(s) /\ \A p \in Pledge : Claim(s, p)' => Claim(s, p)
  <2>1. job[h].by # s
    BY <1>6
  <2>2. /\ job' = [job EXCEPT ![h] = Idle] /\ custody' = custody
        /\ pending'[s] = pending[s]
    <3>1. pending' = [pending EXCEPT ![job[h].by] = {}]
      BY <1>6 DEF EndDistribute
    <3>2. pending'[s] = pending[s]
      BY <2>1, <3>1 DEF TypeOK
    <3>3. QED
      BY <1>6, <3>2 DEF EndDistribute, End
  <2>3. \A g \in Handlers : job'[g] = IF g = h THEN Idle ELSE job[g]
    BY <2>2, <1>moves
  <2>4. Settled(s)
    BY <2>1, <2>3 DEF Settled
  <2>5. QED
    BY <2>2, <2>3, <2>4 DEF Claim, Idle
<1>7. ASSUME NEW h \in Handlers, NEW u \in Users, BeginPledge(h, u)
      PROVE  Settled(s) /\ \A p \in Pledge : Claim(s, p)' => Claim(s, p)
  <2>1. PICK c \in custody[u] :
          Start(h, [op |-> "pledge", to |-> c.from, pledge |-> [share |-> c.share, by |-> u]])
    BY <1>7 DEF BeginPledge
  <2>2. PICK q : q = [share |-> c.share, by |-> u]
    OBVIOUS
  <2>3. PICK what : what = [op |-> "pledge", to |-> c.from, pledge |-> q]
    OBVIOUS
  <2>4. /\ job' = [job EXCEPT ![h] = what] /\ job[h].op = "idle"
        /\ custody' = custody /\ pending' = pending
    BY <1>7, <2>1, <2>2, <2>3 DEF BeginPledge, Start
  <2>5. \A g \in Handlers : job'[g] = IF g = h THEN what ELSE job[g]
    BY <2>4, <1>moves
  <2>6. Settled(s)
    BY <2>4, <2>5 DEF Settled
  <2>7. what.to = s => Claim(s, q)
    BY <2>2, <2>3 DEF Claim
  <2>8. ASSUME NEW p \in Pledge, Claim(s, p)' PROVE Claim(s, p)
    <3>1. CASE what.to = s /\ what.pledge = p
      BY <2>3, <2>7, <3>1
    <3>2. CASE ~(what.to = s /\ what.pledge = p)
      BY <2>4, <2>5, <2>8, <3>2 DEF Claim
    <3>3. QED
      BY <3>1, <3>2
  <2>9. QED
    BY <2>6, <2>8
<1>8. ASSUME NEW h \in Handlers, EndPledge(h)
      PROVE  Settled(s) /\ \A p \in Pledge : Claim(s, p)' => Claim(s, p)
  <2>1. PICK q : q = job[h].pledge
    OBVIOUS
  <2>2. /\ job' = [job EXCEPT ![h] = Idle] /\ custody' = custody /\ job[h].op = "pledge"
        /\ pending' = pending \/ pending' = [pending EXCEPT ![job[h].to] = @ \cup {q}]
    <3>1. pending' = pending \/ pending' = [pending EXCEPT ![job[h].to] = @ \cup {job[h].pledge}]
      BY <1>8 DEF EndPledge
    <3>2. QED
      BY <1>8, <2>1, <3>1 DEF EndPledge, End
  <2>3. \A g \in Handlers : job'[g] = IF g = h THEN Idle ELSE job[g]
    <3>1. PICK what : what = Idle
      OBVIOUS
    <3>2. job' = [job EXCEPT ![h] = what]
      BY <2>2, <3>1
    <3>3. \A g \in Handlers : job'[g] = IF g = h THEN what ELSE job[g]
      BY <3>2, <1>moves
    <3>4. QED
      BY <3>1, <3>3
  <2>4. Settled(s)
    BY <2>2, <2>3 DEF Settled
  <2>5. \A p \in pending'[s] : p \in pending[s] \/ (p = q /\ job[h].to = s)
    BY <2>2 DEF TypeOK
  <2>6. QED
    BY <2>1, <2>2, <2>3, <2>4, <2>5 DEF Claim, Idle
<1>9. ASSUME NEW h \in Handlers, NEW u \in Sealants, BeginUnlock(h, u)
      PROVE  Settled(s) /\ \A p \in Pledge : Claim(s, p)' => Claim(s, p)
  <2> DEFINE what == [op |-> "unlock", by |-> u, pledged |-> TRUE,
                      valid |-> Recognized(u, pending[u])]
  <2>1. /\ job' = [job EXCEPT ![h] = what] /\ job[h].op # "distribute"
        /\ custody' = custody /\ pending' = pending
    BY <1>9 DEF BeginUnlock, Start
  <2>2. what.op # "pledge"
    OBVIOUS
  <2> HIDE DEF what
  <2>3. QED
    BY <1>1, <2>1, <2>2
<1>10. ASSUME NEW h \in Handlers, NEW u \in Sealants, NEW xs \in SUBSET (1..Total),
              BeginPresent(h, u, xs)
       PROVE  Settled(s) /\ \A p \in Pledge : Claim(s, p)' => Claim(s, p)
  <2> DEFINE what == [op |-> "unlock", by |-> u, pledged |-> FALSE,
                      valid |-> Presented(session[u].split, u, xs)]
  <2>1. /\ job' = [job EXCEPT ![h] = what] /\ job[h].op # "distribute"
        /\ custody' = custody /\ pending' = pending
    BY <1>10 DEF BeginPresent, Start, Presented
  <2>2. what.op # "pledge"
    OBVIOUS
  <2> HIDE DEF what
  <2>3. QED
    BY <1>1, <2>1, <2>2
<1>11. ASSUME NEW h \in Handlers, NEW container \in Container, Verify(h, container)
       PROVE  Settled(s) /\ \A p \in Pledge : Claim(s, p)' => Claim(s, p)
  <2>1. PICK what : /\ what = Idle \/ what = VerdictOf(job[h], container, Fits(job[h], container))
                    /\ job' = [job EXCEPT ![h] = what]
    BY <1>11, Judged
  <2>2. what.op # "pledge"
    BY <2>1 DEF VerdictOf, Idle
  <2>3. custody' = custody /\ pending' = pending /\ job[h].op # "distribute"
    BY <1>11, Judged
  <2>4. QED
    BY <1>1, <2>1, <2>2, <2>3
<1>12. ASSUME NEW h \in Handlers, EndUnlock(h)
       PROVE  Settled(s) /\ \A p \in Pledge : Claim(s, p)' => Claim(s, p)
  <2>1. /\ job' = [job EXCEPT ![h] = Idle] /\ custody' = custody /\ job[h].op # "distribute"
        /\ pending' = pending \/ pending' = [pending EXCEPT ![job[h].by] = {}]
    BY <1>12 DEF EndUnlock, End
  <2>2. pending'[s] \subseteq pending[s]
    BY <2>1 DEF TypeOK
  <2>3. Idle.op # "pledge"
    BY DEF Idle
  <2>4. QED
    BY <1>1, <2>1, <2>2, <2>3
<1>13. CASE UNCHANGED vars
  BY <1>2, <1>13 DEF vars
<1>14. QED
  BY <1>3, <1>4, <1>5, <1>6, <1>7, <1>8, <1>9, <1>10, <1>11, <1>12, <1>13 DEF Next, Verify

\* Claims of one account for one split still agree after any step.
LEMMA AgreeStep ==
  ASSUME OfficersInv, [Next]_vars, calm', NEW s \in Sealants, Settled(s)'
  PROVE  Agree(s)'
<1>1. TypeOK /\ calm /\ Alone /\ OneSlot /\ (Settled(s) => Agree(s))
  BY AloneStep DEF OfficersInv, EInv
<1>2. CASE \A g \in Handlers : EndDistribute(g) => job[g].by # s
  <2>1. Settled(s) /\ \A p \in Pledge : Claim(s, p)' => Claim(s, p)
    BY <1>1, <1>2, ClaimsShrink
  <2>2. Agree(s)
    BY <1>1, <2>1
  <2>3. QED
    BY <2>1, <2>2 DEF Agree
<1>3. ASSUME NEW g \in Handlers, EndDistribute(g), job[g].by = s PROVE Agree(s)'
  <2>1. \A h \in Handlers : job'[h].op = "idle"
    <3>1. \A h \in Handlers : h # g => job[h].op = "idle"
      BY <1>1, <1>3 DEF EndDistribute, Alone, At
    <3>2. \A h \in Handlers : job'[h] = IF h = g THEN Idle ELSE job[h]
      BY <1>1, <1>3, MovesOne DEF EndDistribute, End
    <3>3. QED
      BY <3>1, <3>2 DEF Idle
  <2>2. pending'[s] = {} /\ custody' = custody
    BY <1>1, <1>3 DEF EndDistribute, TypeOK
  <2>3. ASSUME NEW p \in Pledge, NEW q \in Pledge, Claim(s, p)', Claim(s, q)', p.by = q.by
        PROVE  p = q
    <3>1. \E c \in custody[p.by] : c.share = p.share
      BY <2>1, <2>2, <2>3 DEF Claim, At
    <3>2. \E c \in custody[p.by] : c.share = q.share
      BY <2>1, <2>2, <2>3 DEF Claim, At
    <3>3. p.share = q.share
      BY <1>1, <3>1, <3>2 DEF OneSlot, Pledge
    <3>4. QED
      BY <2>3, <3>3 DEF Pledge
  <2>4. QED
    BY <2>3 DEF Agree
<1>4. QED
  BY <1>2, <1>3

\* What an unlock takes from the pledges is by as many accounts as it is shares.
LEMMA UnlockOfficersStep ==
  ASSUME OfficersInv, [Next]_vars, calm', NEW h \in Handlers
  PROVE  UnlockOfficers(h)'
<1> USE DEF At
<1>1. TypeOK /\ calm /\ UnlockOfficers(h)
  BY AloneStep DEF OfficersInv, EInv
<1>2. CASE job'[h] = job[h]
  BY <1>1, <1>2 DEF UnlockOfficers
<1> SUFFICES ASSUME job'[h] # job[h] PROVE UnlockOfficers(h)'
  BY <1>2
<1>3. ASSUME NEW g \in Handlers, NEW what, job' = [job EXCEPT ![g] = what]
      PROVE  g = h /\ job'[h] = what
  BY <1>1, <1>3, MovesOne
<1>4. ASSUME job'[h].op \notin {"unlock", "verdict"} PROVE UnlockOfficers(h)'
  BY <1>4 DEF UnlockOfficers
<1>5. ASSUME NEW s \in Sealants, DeriveKey(s) \/ SealWithQuorum(s) PROVE FALSE
  BY <1>5 DEF DeriveKey, SealWithQuorum, AtOnce
<1>6. ASSUME NEW g \in Handlers, NEW s \in Sealants, NEW roster \in Rosters,
             BeginDistribute(g, s, roster)
      PROVE  UnlockOfficers(h)'
  BY <1>3, <1>4, <1>6 DEF BeginDistribute, Start
<1>7. ASSUME NEW g \in Handlers, HandOver(g) PROVE UnlockOfficers(h)'
  <2>1. PICK d : d = job[g]
    OBVIOUS
  <2>2. d \in DistributeJob /\ job' = [job EXCEPT ![g] = [d EXCEPT !.x = @ + 1]]
    BY <1>1, <1>7, <2>1, JobKinds DEF HandOver, TypeOK
  <2>3. [d EXCEPT !.x = @ + 1].op = "distribute"
    BY <2>2 DEF DistributeJob
  <2>4. QED
    BY <1>3, <1>4, <2>2, <2>3
<1>8. ASSUME NEW g \in Handlers, EndDistribute(g) \/ EndPledge(g) \/ EndUnlock(g)
      PROVE  UnlockOfficers(h)'
  <2>1. job' = [job EXCEPT ![g] = Idle]
    BY <1>8 DEF EndDistribute, EndPledge, EndUnlock, End
  <2>2. QED
    BY <1>3, <1>4, <2>1 DEF Idle
<1>9. ASSUME NEW g \in Handlers, NEW u \in Users, BeginPledge(g, u) PROVE UnlockOfficers(h)'
  BY <1>3, <1>4, <1>9 DEF BeginPledge, Start
<1>10. ASSUME NEW g \in Handlers, NEW s \in Sealants, BeginUnlock(g, s)
       PROVE  UnlockOfficers(h)'
  <2> DEFINE valid == Recognized(s, pending[s])
  <2>1. job'[h].valid = valid /\ Distributing = {}
    <3>1. /\ job' = [job EXCEPT ![g] = [op |-> "unlock", by |-> s, pledged |-> TRUE,
                                        valid |-> valid]]
          /\ Distributing = {}
      BY <1>10 DEF BeginUnlock, Start
    <3>2. job'[h] = [op |-> "unlock", by |-> s, pledged |-> TRUE, valid |-> valid]
      BY <1>3, <3>1
    <3>3. QED
      BY <3>1, <3>2
  <2>2. Agree(s)
    <3>1. Settled(s)
      BY <2>1 DEF Settled, Distributing
    <3>2. QED
      BY <1>1, <3>1 DEF OfficersInv
  <2>3. \A p \in valid : p \in Pledge /\ p \in pending[s] /\ p.share.split = session[s].split
    BY <1>1 DEF Recognized, TypeOK
  <2>4. \A p, q \in valid : p.by = q.by => p = q
    BY <2>2, <2>3 DEF Agree, Claim
  <2>5. \A p, q \in valid : p.share.x = q.share.x => p = q
    BY <1>1, <2>3 DEF TypeOK
  <2>6. QED
    BY <2>1, <2>4, <2>5 DEF UnlockOfficers, Officers
<1>11. ASSUME NEW g \in Handlers, NEW s \in Sealants, NEW xs \in SUBSET (1..Total),
              BeginPresent(g, s, xs)
       PROVE  UnlockOfficers(h)'
  <2>1. ~job'[h].pledged
    BY <1>3, <1>11 DEF BeginPresent, Start
  <2>2. QED
    BY <2>1 DEF UnlockOfficers
<1>12. ASSUME NEW g \in Handlers, NEW container \in Container, Verify(g, container)
       PROVE  UnlockOfficers(h)'
  <2> DEFINE what == VerdictOf(job[g], container, Fits(job[g], container))
  <2>1. /\ job[g].op = "unlock"
        /\ job' = [job EXCEPT ![g] = Idle] \/ job' = [job EXCEPT ![g] = what]
    BY <1>1, <1>12, Judged
  <2>2. CASE job' = [job EXCEPT ![g] = Idle]
    BY <1>3, <2>2 DEF UnlockOfficers, Idle
  <2>3. CASE job' = [job EXCEPT ![g] = what]
    <3>1. what.valid = job[g].valid /\ what.pledged = job[g].pledged
      BY DEF VerdictOf
    <3> HIDE DEF what
    <3>2. g = h /\ job'[h] = what
      BY <1>3, <2>3
    <3>3. QED
      BY <1>1, <2>1, <3>1, <3>2 DEF UnlockOfficers
  <2>4. QED
    BY <2>1, <2>2, <2>3
<1>13. CASE UNCHANGED vars
  BY <1>13 DEF vars
<1>14. QED
  BY <1>5, <1>6, <1>7, <1>8, <1>9, <1>10, <1>11, <1>12, <1>13 DEF Next, Verify

\* Every step keeps the invariant.
LEMMA OfficersStep == OfficersInv /\ [Next]_vars => OfficersInv'
<1> SUFFICES ASSUME OfficersInv, [Next]_vars PROVE OfficersInv'
  OBVIOUS
<1>1. EInv' /\ OneSlot'
  BY ExactStep, OneSlotStep DEF OfficersInv, EInv
<1>2. calm' => Alone'
  BY AloneStep DEF OfficersInv, EInv
<1>3. calm' => \A s \in Sealants : Settled(s)' => Agree(s)'
  BY AgreeStep
<1>4. calm' => \A h \in Handlers : UnlockOfficers(h)'
  BY UnlockOfficersStep
<1>5. QED
  BY <1>1, <1>2, <1>3, <1>4 DEF OfficersInv

\* Pledges of different shares by different accounts are by as many accounts as
\* they are pledges.
LEMMA OfficersCount ==
  ASSUME NEW valid \in SUBSET Pledge, Officers(valid)
  PROVE  Cardinality({ p.by : p \in valid }) = Cardinality(valid)
<1> DEFINE T == { p.by : p \in valid }
           f == [p \in valid |-> p.by]
           x == [p \in valid |-> p.share.x]
<1>1. IsFiniteSet(valid)
  <2>1. IsFiniteSet(1..Total)
    BY FS_Interval, QuorumAssumption
  <2>2. x \in [valid -> 1..Total]
    BY DEF Pledge, Share
  <2>3. x \in Injection(valid, 1..Total)
    BY <2>2 DEF Injection, IsInjective, Officers
  <2> HIDE DEF x
  <2>4. QED
    BY <2>1, <2>3, FS_Injection
<1>2. f \in [valid -> T] /\ \A t \in T : \E p \in valid : f[p] = t
  OBVIOUS
<1>3. f \in Surjection(valid, T) /\ f \in Injection(valid, T)
  BY <1>2 DEF Surjection, Injection, IsInjective, Officers
<1> HIDE DEF f, T
<1>4. Cardinality(T) = Cardinality(valid)
  BY <1>1, <1>3, FS_Surjection
<1>5. QED
  BY <1>4 DEF T

\* While distributions run alone, an unlock that passes on pledges has the word
\* of Threshold different accounts, however often and to whomever shares of the
\* split were handed out before, and whatever pledges, seals and unlocks run in
\* parallel: nobody unlocks alone by pledging two shares.
THEOREM OfficersAlwaysDistinct == Spec => []OfficersDistinct
<1>1. OfficersInv => OfficersDistinct
  <2>1. SUFFICES ASSUME OfficersInv, NEW h \in Handlers, calm, At(h, "verdict"),
                        job[h].pledged
                 PROVE  Cardinality({ p.by : p \in job[h].valid }) >= Threshold
    BY DEF OfficersDistinct
  <2>2. Officers(job[h].valid) /\ OneSplit(job[h].valid)
    BY <2>1 DEF OfficersInv, UnlockOfficers, EInv, JobExact
  <2>3. job[h].valid \in SUBSET Pledge
    BY <2>1, JobKinds DEF OfficersInv, EInv, TypeOK, At, VerdictJob
  <2>4. QED
    BY <2>2, <2>3, OfficersCount DEF OneSplit
<1>2. QED
  BY <1>1, OfficersInit, OfficersStep, PTL DEF Spec
=============================================================================
