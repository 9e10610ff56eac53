--------------------------- MODULE ServiceProofs ----------------------------
(***************************************************************************)
(* Proofs about the services of the server that stand on their own.        *)
(*                                                                         *)
(* Accounts, for any names, any finite set of login threads and any        *)
(* bounds: acknowledged registrations are durable, sessions are of         *)
(* accounts of this process, and the back-off holds against parallel       *)
(* logins.                                                                 *)
(*                                                                         *)
(* BlindChallenge, for a table of any size and any threads: a round is     *)
(* revealed at most once, and a round that is still young is only ever     *)
(* given up to as many others as the table holds.                          *)
(*                                                                         *)
(* RunStream, for any runs, viewers and capacity of the channel: a viewer  *)
(* that comes after a run's end is shown a result first, and one that lost *)
(* nothing has a run's results before its end.                             *)
(*                                                                         *)
(* LockOrder, for any threads and accounts: requests never wait for each   *)
(* other in a circle.                                                      *)
(***************************************************************************)
EXTENDS Accounts, BlindChallenge, RunStream, LockOrder, FiniteSetTheorems, WellFoundedInduction, TLAPS

-----------------------------------------------------------------------------
(***************************************************************************)
(* Accounts and sessions.                                                  *)
(***************************************************************************)

\* What a login is at.
Stage == {Outside} \cup [at : {"record", "grant", "fail"}, name : Names]

AccountsTypeOK ==
  /\ tries \in [Names -> Nat]
  /\ door \in [Doors -> Stage]
  /\ misread \in BOOLEAN

\* A registration under way has the store it wrote, its own account in it.
WrittenIsStore == Registering => written.names = store /\ written.by \in store

\* Who is to be granted a session has an account.
GrantsHaveAccounts == \A d \in Doors : door[d].at = "grant" => door[d].name \in store

\* The logins of a name that are past the back-off.
Within(n) == { d \in Doors : door[d].at # "out" /\ door[d].name = n }

\* A login past the back-off may fail once: with it the failures still to come
\* are counted before they happen.
FailuresToCome ==
  \A n \in Names : /\ n \notin failing => tries[n] = 0
                   /\ tries[n] + Cardinality(Within(n)) <= Cardinality(Doors)

AccountsInv ==
  /\ AccountsTypeOK /\ WrittenIsStore /\ GrantsHaveAccounts /\ FailuresToCome
  /\ AccountsSurvive /\ SessionsHaveAccounts

-----------------------------------------------------------------------------
\* Logins past the back-off are finitely many, no more than there are threads.
LEMMA WithinBounded ==
  ASSUME NEW n
  PROVE  /\ IsFiniteSet(Within(n))
         /\ Cardinality(Within(n)) \in Nat
         /\ Cardinality(Doors) \in Nat
         /\ Cardinality(Within(n)) <= Cardinality(Doors)
<1>1. Within(n) \subseteq Doors /\ IsFiniteSet(Doors)
  BY AccountsAssumption DEF Within
<1>2. QED
  BY <1>1, FS_Subset, FS_CardinalityType

\* When nobody enters, the count of a name cannot grow.
LEMMA WithinShrinks ==
  ASSUME NEW n, Within(n)' \subseteq Within(n)
  PROVE  /\ Cardinality(Within(n)') \in Nat
         /\ Cardinality(Within(n)') <= Cardinality(Within(n))
BY WithinBounded, FS_Subset, FS_CardinalityType

\* A step that leaves tries, failing and every door alone keeps the count.
LEMMA CountKept ==
  ASSUME FailuresToCome, UNCHANGED <<failing, tries, door>>
  PROVE  FailuresToCome'
<1>1. \A n : Within(n)' = Within(n)
  BY DEF Within
<1>2. QED
  BY <1>1 DEF FailuresToCome

-----------------------------------------------------------------------------
LEMMA AccountsInvInit == AccountsInit => AccountsInv
<1>1. SUFFICES ASSUME AccountsInit PROVE AccountsInv
  OBVIOUS
<1>2. AccountsTypeOK
  BY <1>1 DEF AccountsInit, AccountsTypeOK, Stage
<1>3. WrittenIsStore /\ AccountsSurvive /\ SessionsHaveAccounts
  BY <1>1 DEF AccountsInit, WrittenIsStore, Registering, Nothing, NoFileYet,
              AccountsSurvive, SessionsHaveAccounts
<1>4. \A d \in Doors : door[d].at = "out"
  BY <1>1 DEF AccountsInit, Outside
<1>5. GrantsHaveAccounts
  BY <1>4 DEF GrantsHaveAccounts
<1>6. FailuresToCome
  <2>1. SUFFICES ASSUME NEW n \in Names
                 PROVE  tries[n] = 0 /\ Cardinality(Within(n)) <= Cardinality(Doors)
    BY <1>1, WithinBounded DEF FailuresToCome, AccountsInit
  <2>2. QED
    BY <1>1, WithinBounded DEF AccountsInit
<1>7. QED
  BY <1>2, <1>3, <1>5, <1>6 DEF AccountsInv

\* Registration: the store grows and the file follows or does not.
LEMMA RegistrationKeeps ==
  ASSUME AccountsInv, (\E n \in Names : Register(n)) \/ Rename \/ PersistRefused
  PROVE  AccountsInv'
<1>1. UNCHANGED <<failing, tries, door, sessions, misread>>
  BY DEF Register, Rename, PersistRefused
<1>2. AccountsTypeOK'
  BY <1>1 DEF AccountsInv, AccountsTypeOK
<1>3. FailuresToCome'
  BY <1>1, CountKept DEF AccountsInv
<1>4. store \subseteq store'
  BY DEF Register, Rename, PersistRefused
<1>5. GrantsHaveAccounts' /\ SessionsHaveAccounts'
  BY <1>1, <1>4 DEF AccountsInv, GrantsHaveAccounts, SessionsHaveAccounts
<1>6. WrittenIsStore' /\ AccountsSurvive'
  <2>1. CASE \E n \in Names : Register(n)
    BY <2>1 DEF AccountsInv, Register, WrittenIsStore, AccountsSurvive
  <2>2. CASE Rename
    BY <2>2 DEF AccountsInv, Rename, WrittenIsStore, AccountsSurvive, Registering, Nothing
  <2>3. CASE PersistRefused
    BY <2>3 DEF AccountsInv, PersistRefused, WrittenIsStore, AccountsSurvive, Registering, Nothing
  <2>4. QED
    BY <2>1, <2>2, <2>3
<1>7. QED
  BY <1>2, <1>3, <1>5, <1>6 DEF AccountsInv

\* A login gets past the back-off: no failure of the name is on record.
LEMMA EnterKeeps ==
  ASSUME AccountsInv, NEW n \in Names, NEW d \in Doors, Enter(d, n)
  PROVE  AccountsInv'
<1>1. UNCHANGED <<store, file, written, sessions, failing, tries, promised, misread>>
  BY DEF Enter
<1>2. door' = [door EXCEPT ![d] = [at |-> "record", name |-> n]]
  BY DEF Enter
<1>3. AccountsTypeOK'
  BY <1>1, <1>2 DEF AccountsInv, AccountsTypeOK, Stage
<1>4. WrittenIsStore' /\ AccountsSurvive' /\ SessionsHaveAccounts'
  BY <1>1 DEF AccountsInv, WrittenIsStore, Registering, AccountsSurvive, SessionsHaveAccounts
<1>5. GrantsHaveAccounts'
  BY <1>1, <1>2 DEF AccountsInv, AccountsTypeOK, GrantsHaveAccounts
<1>6. FailuresToCome'
  <2>1. SUFFICES ASSUME NEW m \in Names
                 PROVE  /\ m \notin failing => tries[m] = 0
                        /\ tries[m] + Cardinality(Within(m)') <= Cardinality(Doors)
    BY <1>1 DEF FailuresToCome
  <2>2. m \notin failing => tries[m] = 0
    BY DEF AccountsInv, FailuresToCome
  <2>3. CASE m = n
    <3>1. tries[m] = 0
      BY <2>2, <2>3 DEF Enter
    <3>2. Within(m)' \subseteq Doors /\ IsFiniteSet(Doors)
      BY AccountsAssumption DEF Within
    <3>3. Cardinality(Within(m)') \in Nat /\ Cardinality(Within(m)') <= Cardinality(Doors)
      BY <3>2, FS_Subset, FS_CardinalityType
    <3>4. QED
      BY <2>2, <3>1, <3>3
  <2>4. CASE m # n
    <3>1. Within(m)' \subseteq Within(m)
      BY <1>2, <2>4 DEF Within, AccountsInv, AccountsTypeOK
    <3>2. tries[m] + Cardinality(Within(m)) <= Cardinality(Doors) /\ tries[m] \in Nat
      BY DEF AccountsInv, FailuresToCome, AccountsTypeOK
    <3>3. QED
      BY <2>2, <3>1, <3>2, WithinShrinks, WithinBounded
  <2>5. QED
    BY <2>3, <2>4
<1>7. QED
  BY <1>3, <1>4, <1>5, <1>6 DEF AccountsInv

\* The password is checked: who is to be granted a session is in the store.
LEMMA CheckKeeps ==
  ASSUME AccountsInv, NEW d \in Doors, NEW right \in BOOLEAN, Check(d, right)
  PROVE  AccountsInv'
<1>1. UNCHANGED <<store, file, written, sessions, failing, tries, promised, misread>>
  BY DEF Check
<1>2. door[d] \in [at : {"record", "grant", "fail"}, name : Names] /\ door[d].at = "record"
  BY DEF Check, AccountsInv, AccountsTypeOK, Stage, Outside
<1> DEFINE n == door[d].name
           a == IF right /\ n \in store THEN "grant" ELSE "fail"
<1>3. door' = [door EXCEPT ![d] = [at |-> a, name |-> n]] /\ a \in {"grant", "fail"}
  BY DEF Check
<1>4. AccountsTypeOK'
  BY <1>1, <1>2, <1>3 DEF AccountsInv, AccountsTypeOK, Stage
<1>5. WrittenIsStore' /\ AccountsSurvive' /\ SessionsHaveAccounts'
  BY <1>1 DEF AccountsInv, WrittenIsStore, Registering, AccountsSurvive, SessionsHaveAccounts
<1>6. GrantsHaveAccounts'
  BY <1>1, <1>3 DEF AccountsInv, AccountsTypeOK, GrantsHaveAccounts
<1>7. FailuresToCome'
  <2>1. ASSUME NEW m PROVE Within(m)' = Within(m)
    BY <1>2, <1>3 DEF Within, AccountsInv, AccountsTypeOK
  <2>2. QED
    BY <1>1, <2>1 DEF AccountsInv, FailuresToCome
<1>8. QED
  BY <1>4, <1>5, <1>6, <1>7 DEF AccountsInv

\* A failure is put on record: it was counted already.
LEMMA FailKeeps ==
  ASSUME AccountsInv, NEW d \in Doors, Fail(d)
  PROVE  AccountsInv'
<1> DEFINE n == door[d].name
<1>1. UNCHANGED <<store, file, written, sessions, promised, misread>>
  BY DEF Fail
<1>2. /\ door[d].at = "fail" /\ n \in Names /\ d \in Within(n)
      /\ door' = [door EXCEPT ![d] = Outside]
      /\ tries' = [tries EXCEPT ![n] = @ + 1]
      /\ failing' = failing \cup {n}
  BY DEF Fail, AccountsInv, AccountsTypeOK, Stage, Outside, Within
<1>3. AccountsTypeOK'
  BY <1>1, <1>2 DEF AccountsInv, AccountsTypeOK, Stage
<1>4. WrittenIsStore' /\ AccountsSurvive' /\ SessionsHaveAccounts'
  BY <1>1 DEF AccountsInv, WrittenIsStore, Registering, AccountsSurvive, SessionsHaveAccounts
<1>5. GrantsHaveAccounts'
  BY <1>1, <1>2 DEF AccountsInv, AccountsTypeOK, GrantsHaveAccounts, Outside
<1>6. FailuresToCome'
  <2>1. SUFFICES ASSUME NEW m \in Names
                 PROVE  /\ m \notin failing' => tries'[m] = 0
                        /\ tries'[m] + Cardinality(Within(m)') <= Cardinality(Doors)
    BY DEF FailuresToCome
  <2>2. /\ m \notin failing => tries[m] = 0
        /\ tries[m] + Cardinality(Within(m)) <= Cardinality(Doors)
        /\ tries[m] \in Nat
    BY DEF AccountsInv, FailuresToCome, AccountsTypeOK
  <2>3. CASE m = n
    <3>1. Within(m)' = Within(m) \ {d}
      BY <1>2, <2>3 DEF Within, AccountsInv, AccountsTypeOK, Outside
    <3>2. Cardinality(Within(m)') = Cardinality(Within(m)) - 1
      <4>1. PICK S : S = Within(m)
        OBVIOUS
      <4>2. IsFiniteSet(S) /\ d \in S
        BY <1>2, <2>3, <4>1, WithinBounded
      <4>3. Cardinality(S \ {d}) = Cardinality(S) - 1
        BY <4>2, FS_RemoveElement
      <4>4. QED
        BY <3>1, <4>1, <4>3
    <3>3. tries'[m] = tries[m] + 1
      BY <1>2, <2>3 DEF AccountsInv, AccountsTypeOK
    <3>4. QED
      BY <1>2, <2>2, <2>3, <3>2, <3>3, WithinBounded
  <2>4. CASE m # n
    <3>1. Within(m)' \subseteq Within(m)
      BY <1>2, <2>4 DEF Within, AccountsInv, AccountsTypeOK, Outside
    <3>2. tries'[m] = tries[m]
      BY <1>2, <2>4 DEF AccountsInv, AccountsTypeOK
    <3>3. QED
      BY <1>2, <2>2, <3>1, <3>2, WithinShrinks, WithinBounded
  <2>5. QED
    BY <2>3, <2>4
<1>7. QED
  BY <1>3, <1>4, <1>5, <1>6 DEF AccountsInv

\* A session is granted or ended, or the back-off of a name is over.
LEMMA SessionsKeep ==
  ASSUME AccountsInv,
         \/ \E d \in Doors : Grant(d)
         \/ \E s \in sessions : Logout(s)
         \/ \E n \in Names : BackoffEnds(n)
  PROVE  AccountsInv'
<1>1. UNCHANGED <<store, file, written, promised, misread>>
  BY DEF Grant, Logout, BackoffEnds
<1>2. \A e \in Doors : door'[e] = door[e] \/ door'[e] = Outside
  BY DEF Grant, Logout, BackoffEnds, AccountsInv, AccountsTypeOK
<1>3. \A m \in Names : tries'[m] = tries[m] \/ tries'[m] = 0
  BY DEF Grant, Logout, BackoffEnds, AccountsInv, AccountsTypeOK
<1>4. AccountsTypeOK'
  <2>1. door' \in [Doors -> Stage]
    BY DEF Grant, Logout, BackoffEnds, AccountsInv, AccountsTypeOK, Stage
  <2>2. tries' \in [Names -> Nat]
    BY DEF Grant, Logout, BackoffEnds, AccountsInv, AccountsTypeOK
  <2>3. QED
    BY <1>1, <2>1, <2>2 DEF AccountsInv, AccountsTypeOK
<1>5. WrittenIsStore' /\ AccountsSurvive'
  BY <1>1 DEF AccountsInv, WrittenIsStore, Registering, AccountsSurvive
<1>6. GrantsHaveAccounts'
  BY <1>1, <1>2 DEF AccountsInv, GrantsHaveAccounts, Outside
<1>7. SessionsHaveAccounts'
  <2>1. CASE \E d \in Doors : Grant(d)
    BY <1>1, <2>1 DEF Grant, AccountsInv, GrantsHaveAccounts, SessionsHaveAccounts
  <2>2. CASE sessions' \subseteq sessions
    BY <1>1, <2>2 DEF AccountsInv, SessionsHaveAccounts
  <2>3. QED
    BY <2>1, <2>2 DEF Logout, BackoffEnds
<1>8. FailuresToCome'
  <2>1. SUFFICES ASSUME NEW m \in Names
                 PROVE  /\ m \notin failing' => tries'[m] = 0
                        /\ tries'[m] + Cardinality(Within(m)') <= Cardinality(Doors)
    BY DEF FailuresToCome
  <2>2. /\ m \notin failing => tries[m] = 0
        /\ tries[m] + Cardinality(Within(m)) <= Cardinality(Doors)
        /\ tries[m] \in Nat
    BY DEF AccountsInv, FailuresToCome, AccountsTypeOK
  <2>3. m \notin failing' => tries'[m] = 0
    BY <2>2 DEF Grant, Logout, BackoffEnds, AccountsInv, AccountsTypeOK
  <2>4. Within(m)' \subseteq Within(m)
    BY <1>2 DEF Within, Outside
  <2>5. QED
    BY <1>3, <2>2, <2>3, <2>4, WithinShrinks, WithinBounded
<1>9. QED
  BY <1>4, <1>5, <1>6, <1>7, <1>8 DEF AccountsInv

\* The process starts again.
LEMMA BootKeeps ==
  ASSUME AccountsInv, NEW readable \in BOOLEAN, Boot(readable)
  PROVE  AccountsInv'
<1>1. AccountsTypeOK'
  BY DEF Boot, AccountsInv, AccountsTypeOK, Stage
<1>2. WrittenIsStore' /\ AccountsSurvive' /\ SessionsHaveAccounts'
  BY DEF Boot, AccountsInv, AccountsTypeOK, WrittenIsStore, Registering, Nothing,
         AccountsSurvive, SessionsHaveAccounts
<1>3. \A d \in Doors : door'[d].at = "out"
  BY DEF Boot, Outside
<1>4. GrantsHaveAccounts'
  BY <1>3 DEF GrantsHaveAccounts
<1>5. FailuresToCome'
  <2>1. SUFFICES ASSUME NEW m \in Names
                 PROVE  tries'[m] = 0 /\ Cardinality(Within(m)') <= Cardinality(Doors)
                                      /\ Cardinality(Within(m)') \in Nat
    BY DEF FailuresToCome
  <2>2. Within(m)' \subseteq Doors /\ IsFiniteSet(Doors)
    BY AccountsAssumption DEF Within
  <2>3. QED
    BY <2>2, FS_Subset, FS_CardinalityType DEF Boot
<1>6. QED
  BY <1>1, <1>2, <1>4, <1>5 DEF AccountsInv

LEMMA AccountsInvStep == AccountsInv /\ [AccountsNext]_accountVars => AccountsInv'
<1>1. SUFFICES ASSUME AccountsInv, [AccountsNext]_accountVars PROVE AccountsInv'
  OBVIOUS
<1>2. CASE UNCHANGED accountVars
  <2>1. FailuresToCome'
    BY <1>1, <1>2, CountKept DEF AccountsInv, accountVars
  <2>2. QED
    BY <1>1, <1>2, <2>1 DEF AccountsInv, accountVars, AccountsTypeOK, WrittenIsStore, Registering,
       GrantsHaveAccounts, AccountsSurvive, SessionsHaveAccounts
<1>3. CASE AccountsNext
  BY <1>1, <1>3, RegistrationKeeps, EnterKeeps, CheckKeeps, FailKeeps, SessionsKeep, BootKeeps
     DEF AccountsNext
<1>4. QED
  BY <1>1, <1>2, <1>3

-----------------------------------------------------------------------------
LEMMA AccountsInvariant == AccountsSpec => []AccountsInv
BY AccountsInvInit, AccountsInvStep, PTL DEF AccountsSpec

\* Acknowledged registrations survive refused ones and crashes at any step of the
\* write and the rename, as long as no start misread the file.
THEOREM AccountsAlwaysSurvive == AccountsSpec => []AccountsSurvive
<1>1. AccountsInv => AccountsSurvive
  BY DEF AccountsInv
<1>2. QED
  BY <1>1, AccountsInvariant, PTL

\* No session is ever of a name that is not in this process's store.
THEOREM SessionsAlwaysHaveAccounts == AccountsSpec => []SessionsHaveAccounts
<1>1. AccountsInv => SessionsHaveAccounts
  BY DEF AccountsInv
<1>2. QED
  BY <1>1, AccountsInvariant, PTL

\* However many logins of a name run in parallel, no more of them fail before the
\* back-off is over than there are threads.
THEOREM BackoffAlwaysHolds == AccountsSpec => []BackoffHolds
<1>1. AccountsInv => BackoffHolds
  <2>1. SUFFICES ASSUME AccountsInv, NEW n \in Names PROVE tries[n] <= Cardinality(Doors)
    BY DEF BackoffHolds
  <2>2. tries[n] \in Nat /\ tries[n] + Cardinality(Within(n)) <= Cardinality(Doors)
    BY <2>1 DEF AccountsInv, AccountsTypeOK, FailuresToCome
  <2>3. QED
    BY <2>2, WithinBounded
<1>2. QED
  BY <1>1, AccountsInvariant, PTL

-----------------------------------------------------------------------------
(***************************************************************************)
(* Blinded rounds.                                                         *)
(***************************************************************************)

Round == [id : Nat, born : Nat]
Benches ==
  {FreeBench} \cup [at : {"file"}, born : Nat] \cup [at : {"reveal"}, round : Round]

BlindTypeOK ==
  /\ time \in Nat
  /\ filed \in Seq(Nat) /\ Len(filed) <= MaxRounds
  /\ table \in SUBSET Round
  /\ bench \in [Judges -> Benches]
  /\ answers \in [1..MaxRounds -> Nat]

\* A round that is kept or being revealed is the one that was filed.
FiledAs(r) == r.id \in 1..Len(filed) /\ filed[r.id] = r.born

RoundsRecorded ==
  /\ \A r \in table : FiledAs(r)
  /\ \A j \in Judges : bench[j].at = "reveal" => FiledAs(bench[j].round)

\* No round is dated later than now.
DatesPast ==
  /\ \A i \in 1..Len(filed) : filed[i] <= time
  /\ \A j \in Judges : bench[j].at = "file" => bench[j].born <= time

\* A round is in one place: in the table, or with one handler.
OnePlace ==
  \A j \in Judges : bench[j].at = "reveal" =>
    /\ \A r \in table : r.id # bench[j].round.id
    /\ \A k \in Judges : bench[k].at = "reveal" /\ bench[k].round.id = bench[j].round.id => k = j

\* No answer before the round is filed.
AnsweredWhenFiled == \A n \in 1..MaxRounds : n > Len(filed) => answers[n] = 0

\* The rounds that came after round n or are not older.
NotBefore(n) == { m \in DOMAIN filed \ {n} : m > n \/ filed[m] >= filed[n] }

\* YoungRoundsStay, of one round.
YoungStays(n) ==
  (~InHand(n) /\ answers[n] = 0 /\ time - filed[n] < Lifetime) => Cardinality(NotBefore(n)) >= Room

BlindInv ==
  /\ BlindTypeOK /\ RoundsRecorded /\ DatesPast /\ OnePlace /\ AnsweredWhenFiled
  /\ RevealedOnce /\ YoungRoundsStay

-----------------------------------------------------------------------------
\* "Less than" on the naturals is well-founded.
LEMMA NatOrder == \E R : IsWellFoundedOn(R, Nat) /\ \A x, y \in Nat : y < x => <<y, x>> \in R
<1> DEFINE R == OpToRel(<, Nat)
<1>1. IsWellFoundedOn(R, Nat)
  BY NatLessThanWellFounded
<1>2. \A x, y \in Nat : y < x => <<y, x>> \in R
  BY DEF OpToRel
<1> HIDE DEF R
<1>3. QED
  BY <1>1, <1>2

\* So a set of naturals has a least one.
LEMMA NatLeast ==
  ASSUME NEW T \in SUBSET Nat, T # {}
  PROVE  \E x \in T : \A y \in T : x <= y
<1>1. PICK R : IsWellFoundedOn(R, Nat) /\ \A x, y \in Nat : y < x => <<y, x>> \in R
  BY NatOrder
<1>2. PICK x \in T : \A y \in T : <<y, x>> \notin R
  BY <1>1, WFMin
<1>3. x \in Nat /\ \A y \in T : y \in Nat /\ ~(y < x)
  BY <1>1, <1>2
<1>4. QED
  BY <1>2, <1>3

\* What is evicted from a full table is one of its oldest rounds.
LEMMA EvictedIsOldest ==
  ASSUME NEW rounds \in SUBSET Round, IsFiniteSet(rounds), NEW r \in Evicted(rounds)
  PROVE  /\ Cardinality(rounds) >= Room /\ r \in rounds
         /\ Evicted(rounds) = {r}
         /\ \A s \in rounds : r.born <= s.born
<1> DEFINE Oldest(s) == \A t \in rounds : s.born <= t.born
<1>1. ~(Cardinality(rounds) < Room) /\ Evicted(rounds) = { CHOOSE s \in rounds : Oldest(s) }
  BY DEF Evicted
<1>2. Cardinality(rounds) \in Nat /\ Cardinality(rounds) >= Room
  BY <1>1, FS_CardinalityType, BlindAssumption
<1>3. rounds # {}
  BY <1>2, FS_EmptySet, BlindAssumption
<1>4. \E s \in rounds : Oldest(s)
  <2> DEFINE T == { s.born : s \in rounds }
  <2>1. T \in SUBSET Nat /\ T # {}
    BY <1>3 DEF Round
  <2>2. PICK x \in T : \A y \in T : x <= y
    BY <2>1, NatLeast
  <2>3. PICK s \in rounds : s.born = x
    BY <2>2
  <2>4. QED
    BY <2>2, <2>3
<1>5. r = CHOOSE s \in rounds : Oldest(s)
  BY <1>1
<1>6. r \in rounds /\ Oldest(r)
  BY <1>4, <1>5
<1>7. QED
  BY <1>1, <1>2, <1>5, <1>6

\* Rounds of the record are told apart by their ids, so they are no more than the
\* ids they have.
LEMMA CountByIds ==
  ASSUME NEW rounds \in SUBSET Round, NEW ids, IsFiniteSet(ids),
         \A r \in rounds : r.id \in ids,
         \A r, s \in rounds : r.id = s.id => r = s
  PROVE  IsFiniteSet(rounds) /\ Cardinality(rounds) <= Cardinality(ids)
<1> DEFINE f == [r \in rounds |-> r.id]
<1>1. f \in Injection(rounds, ids)
  BY DEF Injection, IsInjective
<1>2. QED
  BY <1>1, FS_Injection

\* The rounds not before a round are among those filed.
LEMMA NotBeforeFinite ==
  ASSUME BlindTypeOK, NEW n
  PROVE  IsFiniteSet(NotBefore(n)) /\ Cardinality(NotBefore(n)) \in Nat
<1>1. Len(filed) \in Int /\ 1 \in Int /\ DOMAIN filed = 1..Len(filed)
  BY DEF BlindTypeOK
<1>2. IsFiniteSet(DOMAIN filed)
  BY <1>1, FS_Interval
<1>3. QED
  BY <1>2, FS_Subset, FS_CardinalityType DEF NotBefore

\* Two recorded rounds of one number are one.
LEMMA RecordedUnique ==
  ASSUME BlindInv, NEW r \in table, NEW s \in table, r.id = s.id
  PROVE  r = s
BY DEF BlindInv, BlindTypeOK, RoundsRecorded, FiledAs, Round

-----------------------------------------------------------------------------
LEMMA BlindInvInit == BlindInit => BlindInv
<1>1. SUFFICES ASSUME BlindInit PROVE BlindInv
  OBVIOUS
<1>2. filed = <<>> /\ Len(filed) = 0 /\ DOMAIN filed = {}
  BY <1>1 DEF BlindInit
<1>3. \A j \in Judges : bench[j] = FreeBench /\ bench[j].at = "free"
  BY <1>1 DEF BlindInit, FreeBench
<1>4. BlindTypeOK
  BY <1>1, <1>2, BlindAssumption DEF BlindInit, BlindTypeOK, Benches
<1>5. RoundsRecorded /\ DatesPast /\ OnePlace
  BY <1>1, <1>2, <1>3 DEF BlindInit, RoundsRecorded, DatesPast, OnePlace
<1>6. AnsweredWhenFiled /\ RevealedOnce
  BY <1>1 DEF BlindInit, AnsweredWhenFiled, RevealedOnce
<1>7. YoungRoundsStay
  BY <1>2 DEF YoungRoundsStay
<1>8. QED
  BY <1>4, <1>5, <1>6, <1>7 DEF BlindInv

\* Time passes, or a handler begins to file: nothing moves.
LEMMA QuietKeeps ==
  ASSUME BlindInv, Tick \/ \E j \in Judges : Prepare(j)
  PROVE  BlindInv'
<1>1. UNCHANGED <<table, filed, answers>>
  BY DEF Tick, Prepare
<1>2. time' \in Nat /\ time <= time'
  BY DEF Tick, Prepare, BlindInv, BlindTypeOK
<1>3. \A j \in Judges :
        \/ bench'[j] = bench[j]
        \/ bench[j] = FreeBench /\ bench'[j] = [at |-> "file", born |-> time]
  <2>1. CASE Tick
    BY <2>1 DEF Tick
  <2>2. ASSUME NEW i \in Judges, Prepare(i), NEW j \in Judges
        PROVE  \/ bench'[j] = bench[j]
               \/ bench[j] = FreeBench /\ bench'[j] = [at |-> "file", born |-> time]
    BY <2>2 DEF Prepare, BlindInv, BlindTypeOK
  <2>3. QED
    BY <2>1, <2>2
<1>4. BlindTypeOK'
  <2>1. bench' \in [Judges -> Benches]
    BY DEF Tick, Prepare, BlindInv, BlindTypeOK, Benches
  <2>2. QED
    BY <1>1, <1>2, <2>1 DEF BlindInv, BlindTypeOK
<1>5. \A j \in Judges : /\ bench'[j].at = "reveal" => bench'[j] = bench[j]
                        /\ bench[j].at = "reveal" => bench'[j] = bench[j]
  BY <1>3 DEF FreeBench
<1>6. RoundsRecorded'
  BY <1>1, <1>5 DEF BlindInv, RoundsRecorded, FiledAs
<1>7. DatesPast'
  <2>1. \A i \in 1..Len(filed) : filed'[i] <= time'
    BY <1>1, <1>2 DEF BlindInv, BlindTypeOK, DatesPast
  <2>2. ASSUME NEW j \in Judges, bench'[j].at = "file" PROVE bench'[j].born <= time'
    <3>1. CASE bench'[j] = bench[j]
      <4>1. bench[j].born \in Nat /\ bench[j].born <= time
        BY <2>2, <3>1 DEF BlindInv, BlindTypeOK, DatesPast, Benches, FreeBench
      <4>2. QED
        BY <1>2, <3>1, <4>1 DEF BlindInv, BlindTypeOK
    <3>2. CASE bench'[j] = [at |-> "file", born |-> time]
      BY <1>2, <3>2
    <3>3. QED
      BY <1>3, <3>1, <3>2
  <2>3. QED
    BY <1>1, <2>1, <2>2 DEF DatesPast
<1>8. OnePlace'
  BY <1>1, <1>5 DEF BlindInv, OnePlace
<1>9. \A n : InHand(n)' <=> InHand(n)
  BY <1>1, <1>5 DEF InHand
<1>10. AnsweredWhenFiled' /\ RevealedOnce'
  BY <1>1, <1>9 DEF BlindInv, AnsweredWhenFiled, RevealedOnce
<1>11. YoungRoundsStay'
  <2>1. SUFFICES ASSUME NEW n \in DOMAIN filed PROVE YoungStays(n)'
    BY <1>1 DEF YoungRoundsStay, YoungStays, NotBefore
  <2>2. YoungStays(n) /\ filed[n] \in Nat
    BY DEF BlindInv, YoungRoundsStay, YoungStays, NotBefore, BlindTypeOK
  <2>3. time' - filed[n] < Lifetime => time - filed[n] < Lifetime
    BY <1>2, <2>2, BlindAssumption DEF BlindInv, BlindTypeOK
  <2>4. NotBefore(n)' = NotBefore(n)
    BY <1>1 DEF NotBefore
  <2>5. QED
    BY <1>1, <1>9, <2>2, <2>3, <2>4 DEF YoungStays
<1>12. QED
  BY <1>4, <1>6, <1>7, <1>8, <1>10, <1>11 DEF BlindInv

\* A round is taken out: it moves from the table to a handler.
LEMMA TakeOutKeeps ==
  ASSUME BlindInv, NEW j \in Judges, NEW round \in table, TakeOut(j, round)
  PROVE  BlindInv'
<1>1. UNCHANGED <<time, filed, answers>> /\ table' = table \ {round}
  BY DEF TakeOut
<1>2. bench' = [bench EXCEPT ![j] = [at |-> "reveal", round |-> round]] /\ bench[j] = FreeBench
  BY DEF TakeOut
<1>3. BlindTypeOK'
  BY <1>1, <1>2 DEF BlindInv, BlindTypeOK, Benches
<1>4. \A k \in Judges : k # j => bench'[k] = bench[k]
  BY <1>2 DEF BlindInv, BlindTypeOK
<1>5. bench'[j] = [at |-> "reveal", round |-> round] /\ bench[j].at = "free"
  BY <1>2 DEF BlindInv, BlindTypeOK, FreeBench
<1>6. RoundsRecorded'
  BY <1>1, <1>4, <1>5 DEF BlindInv, RoundsRecorded, FiledAs
<1>7. DatesPast'
  BY <1>1, <1>4, <1>5 DEF BlindInv, DatesPast
<1>8. OnePlace'
  <2>1. \A r \in table' : r.id # round.id
    BY <1>1, RecordedUnique
  <2>2. \A k \in Judges : bench[k].at = "reveal" => bench[k].round.id # round.id
    BY DEF BlindInv, OnePlace
  <2>3. QED
    BY <1>1, <1>4, <1>5, <2>1, <2>2 DEF BlindInv, OnePlace
<1>9. \A n : InHand(n)' <=> InHand(n)
  BY <1>1, <1>4, <1>5 DEF InHand
<1>10. AnsweredWhenFiled' /\ RevealedOnce' /\ YoungRoundsStay'
  BY <1>1, <1>9 DEF BlindInv, AnsweredWhenFiled, RevealedOnce, YoungRoundsStay
<1>11. QED
  BY <1>3, <1>6, <1>7, <1>8, <1>10 DEF BlindInv

\* A reveal is answered, or the round has expired: it is nowhere any more.
LEMMA AnswerKeeps ==
  ASSUME BlindInv, NEW j \in Judges, Answer(j)
  PROVE  BlindInv'
<1>0. PICK r : r = bench[j].round
  OBVIOUS
<1>1. UNCHANGED <<time, table, filed>> /\ bench[j].at = "reveal"
  BY DEF Answer
<1>2. bench' = [bench EXCEPT ![j] = FreeBench]
  BY DEF Answer
<1>3. answers' = IF Age(r, time) < Lifetime THEN [answers EXCEPT ![r.id] = @ + 1] ELSE answers
  BY <1>0 DEF Answer
<1>4. r \in Round /\ r.id \in 1..Len(filed) /\ filed[r.id] = r.born /\ r.id \in 1..MaxRounds
  BY <1>0, <1>1, BlindAssumption
     DEF BlindInv, BlindTypeOK, Benches, FreeBench, RoundsRecorded, FiledAs, Round
<1>5. (\A k \in Judges : k # j => bench'[k] = bench[k]) /\ bench'[j].at = "free"
  BY <1>2 DEF BlindInv, BlindTypeOK, FreeBench
<1>6. answers[r.id] = 0
  <2>1. InHand(r.id)
    BY <1>0, <1>1 DEF InHand
  <2>2. answers[r.id] \in Nat /\ answers[r.id] <= 1 /\ answers[r.id] # 1
    BY <1>4, <2>1 DEF BlindInv, BlindTypeOK, RevealedOnce
  <2>3. QED
    BY <2>2
<1>7. \A n \in 1..MaxRounds : /\ n # r.id => answers'[n] = answers[n]
                              /\ answers'[r.id] = IF Age(r, time) < Lifetime THEN 1 ELSE 0
  BY <1>3, <1>4, <1>6 DEF BlindInv, BlindTypeOK
<1>8. BlindTypeOK'
  <2>1. bench' \in [Judges -> Benches]
    BY <1>2 DEF BlindInv, BlindTypeOK, Benches
  <2>2. answers' \in [1..MaxRounds -> Nat]
    BY <1>3, <1>4 DEF BlindInv, BlindTypeOK
  <2>3. QED
    BY <1>1, <2>1, <2>2 DEF BlindInv, BlindTypeOK
<1>9. RoundsRecorded' /\ DatesPast' /\ OnePlace'
  BY <1>1, <1>5 DEF BlindInv, RoundsRecorded, FiledAs, DatesPast, OnePlace
<1>10. ~InHand(r.id)' /\ \A n : n # r.id => (InHand(n)' <=> InHand(n))
  <2>1. ~InHand(r.id)'
    BY <1>0, <1>1, <1>5 DEF BlindInv, OnePlace, InHand
  <2>2. ASSUME NEW n, n # r.id PROVE InHand(n)' <=> InHand(n)
    BY <1>0, <1>1, <1>5, <2>2 DEF InHand
  <2>3. QED
    BY <2>1, <2>2
<1>11. AnsweredWhenFiled'
  <2>1. \A n \in 1..MaxRounds : n > Len(filed) => n # r.id
    BY <1>4 DEF BlindInv, BlindTypeOK
  <2>2. QED
    BY <1>1, <1>7, <2>1 DEF BlindInv, AnsweredWhenFiled
<1>12. RevealedOnce'
  <2>1. SUFFICES ASSUME NEW n \in 1..MaxRounds
                 PROVE  answers'[n] <= 1 /\ (answers'[n] = 1 => ~InHand(n)')
    BY DEF RevealedOnce
  <2>2. CASE n = r.id
    BY <1>7, <1>10, <2>2
  <2>3. CASE n # r.id
    BY <1>7, <1>10, <2>3 DEF BlindInv, RevealedOnce
  <2>4. QED
    BY <2>2, <2>3
<1>13. YoungRoundsStay'
  <2>1. SUFFICES ASSUME NEW n \in DOMAIN filed PROVE YoungStays(n)'
    BY <1>1 DEF YoungRoundsStay, YoungStays, NotBefore
  <2>2. n \in 1..MaxRounds /\ YoungStays(n) /\ filed[n] \in Nat
    <3>1. n \in 1..MaxRounds /\ filed[n] \in Nat
      BY BlindAssumption DEF BlindInv, BlindTypeOK
    <3>2. YoungStays(n)
      BY DEF BlindInv, YoungRoundsStay, YoungStays, NotBefore
    <3>3. QED
      BY <3>1, <3>2
  <2>3. NotBefore(n)' = NotBefore(n)
    BY <1>1 DEF NotBefore
  <2>4. CASE n # r.id
    BY <1>1, <1>7, <1>10, <2>2, <2>3, <2>4 DEF YoungStays
  <2>5. CASE n = r.id
    <3>1. CASE Age(r, time) < Lifetime
      BY <1>7, <2>2, <2>5, <3>1 DEF YoungStays
    <3>2. CASE ~(Age(r, time) < Lifetime)
      <4>1. ~(time - filed[n] < Lifetime)
        BY <1>4, <2>2, <2>5, <3>2, BlindAssumption DEF Age, BlindInv, BlindTypeOK
      <4>2. QED
        BY <1>1, <4>1 DEF YoungStays
    <3>3. QED
      BY <3>1, <3>2
  <2>6. QED
    BY <2>4, <2>5
<1>14. QED
  BY <1>8, <1>9, <1>11, <1>12, <1>13 DEF BlindInv

-----------------------------------------------------------------------------
\* A round is filed; expired ones go, and the oldest one when there is no room.
LEMMA FileKeeps ==
  ASSUME BlindInv, NEW j \in Judges, File(j)
  PROVE  BlindInv'
<1>0. PICK now, new : now = bench[j].born /\ new = [id |-> Len(filed) + 1, born |-> now]
  OBVIOUS
<1> DEFINE kept == { r \in table : Age(r, now) < Lifetime }
<1>1. UNCHANGED <<time, answers>> /\ bench[j].at = "file" /\ Len(filed) < MaxRounds
  BY DEF File
<1>2. /\ table' = (kept \ Evicted(kept)) \cup {new}
      /\ filed' = Append(filed, now)
      /\ bench' = [bench EXCEPT ![j] = FreeBench]
  BY <1>0 DEF File
<1>3. now \in Nat /\ now <= time
  BY <1>0, <1>1 DEF BlindInv, BlindTypeOK, Benches, FreeBench, DatesPast
<1>4. /\ filed' \in Seq(Nat) /\ Len(filed') = Len(filed) + 1 /\ Len(filed) \in Nat
      /\ \A i \in 1..Len(filed) : filed'[i] = filed[i]
      /\ filed'[Len(filed) + 1] = now
  BY <1>2, <1>3 DEF BlindInv, BlindTypeOK
<1>5. DOMAIN filed = 1..Len(filed) /\ DOMAIN filed' = 1..(Len(filed) + 1)
  BY <1>4 DEF BlindInv, BlindTypeOK
<1>6. (\A k \in Judges : k # j => bench'[k] = bench[k]) /\ bench'[j].at = "free"
  BY <1>2 DEF BlindInv, BlindTypeOK, FreeBench
<1>7. new \in Round /\ kept \in SUBSET Round /\ kept \subseteq table
  BY <1>0, <1>3, <1>4 DEF BlindInv, BlindTypeOK, Round
<1>8. BlindTypeOK'
  <2>1. bench' \in [Judges -> Benches] /\ table' \in SUBSET Round
    BY <1>2, <1>7 DEF BlindInv, BlindTypeOK, Benches
  <2>2. QED
    BY <1>1, <1>4, <2>1, BlindAssumption DEF BlindInv, BlindTypeOK
<1>9. ASSUME NEW r, FiledAs(r) PROVE FiledAs(r)' /\ r.id # new.id
  BY <1>0, <1>4, <1>9 DEF FiledAs
<1>10. RoundsRecorded'
  <2>1. FiledAs(new)'
    BY <1>0, <1>4 DEF FiledAs
  <2>2. QED
    BY <1>2, <1>6, <1>7, <1>9, <2>1 DEF BlindInv, RoundsRecorded
<1>11. DatesPast'
  <2>1. \A i \in 1..Len(filed') : filed'[i] <= time'
    BY <1>1, <1>3, <1>4 DEF BlindInv, DatesPast
  <2>2. QED
    BY <1>1, <1>6, <2>1 DEF BlindInv, DatesPast
<1>12. OnePlace'
  BY <1>2, <1>6, <1>7, <1>9 DEF BlindInv, RoundsRecorded, OnePlace
<1>13. AnsweredWhenFiled'
  BY <1>1, <1>4 DEF BlindInv, AnsweredWhenFiled
<1>14. \A n \in 1..Len(filed) : InHand(n)' => InHand(n)
  <2>1. SUFFICES ASSUME NEW n \in 1..Len(filed), InHand(n)' PROVE InHand(n)
    OBVIOUS
  <2>2. CASE \E r \in table' : r.id = n
    <3>1. PICK r \in table' : r.id = n
      BY <2>2
    <3>2. r # new
      BY <1>0, <1>4, <3>1
    <3>3. r \in table
      BY <1>2, <1>7, <3>1, <3>2
    <3>4. QED
      BY <3>1, <3>3 DEF InHand
  <2>3. CASE \E k \in Judges : bench'[k].at = "reveal" /\ bench'[k].round.id = n
    BY <1>6, <2>3 DEF InHand
  <2>4. QED
    BY <2>1, <2>2, <2>3 DEF InHand
<1>15. RevealedOnce'
  <2>1. SUFFICES ASSUME NEW n \in 1..MaxRounds PROVE answers[n] <= 1 /\ (answers[n] = 1 => ~InHand(n)')
    BY <1>1 DEF RevealedOnce
  <2>2. answers[n] <= 1 /\ (answers[n] = 1 => ~InHand(n)) /\ (n > Len(filed) => answers[n] = 0)
    BY DEF BlindInv, RevealedOnce, AnsweredWhenFiled
  <2>3. QED
    BY <1>4, <1>14, <2>2
<1>16. YoungRoundsStay'
  <2>1. SUFFICES ASSUME NEW n \in 1..(Len(filed) + 1) PROVE YoungStays(n)'
    BY <1>5 DEF YoungRoundsStay, YoungStays, NotBefore
  <2>2. CASE n = Len(filed) + 1
    <3>1. InHand(n)'
      BY <1>0, <1>2, <2>2 DEF InHand
    <3>2. QED
      BY <3>1 DEF YoungStays
  <2>3. CASE n \in 1..Len(filed)
    <3>1. YoungStays(n) /\ filed'[n] = filed[n] /\ filed[n] \in Nat
      <4>1. YoungStays(n)
        BY <1>5, <2>3 DEF BlindInv, YoungRoundsStay, YoungStays, NotBefore
      <4>2. QED
        BY <1>4, <2>3, <4>1 DEF BlindInv, BlindTypeOK
    <3>2. IsFiniteSet(NotBefore(n)') /\ Cardinality(NotBefore(n)') \in Nat
      <4>1. Len(filed) + 1 \in Int /\ 1 \in Int
        BY <1>4
      <4>2. IsFiniteSet(DOMAIN filed')
        BY <1>5, <4>1, FS_Interval
      <4>3. QED
        BY <4>2, FS_Subset, FS_CardinalityType DEF NotBefore
    <3>3. NotBefore(n) \subseteq NotBefore(n)'
      BY <1>4, <1>5, <2>3 DEF NotBefore
    <3>4. CASE ~InHand(n)
      <4>1. Cardinality(NotBefore(n)) <= Cardinality(NotBefore(n)')
        BY <3>2, <3>3, FS_Subset
      <4>2. Cardinality(NotBefore(n)) \in Nat
        BY NotBeforeFinite DEF BlindInv
      <4>3. QED
        BY <1>1, <3>1, <3>2, <3>4, <4>1, <4>2, BlindAssumption DEF YoungStays
    <3>5. CASE InHand(n)
      <4>1. SUFFICES ASSUME ~InHand(n)', time - filed[n] < Lifetime
                     PROVE  Cardinality(NotBefore(n)') >= Room
        BY <1>1, <3>1 DEF YoungStays
      <4>2. PICK r \in table : r.id = n /\ r \notin table'
        <5>1. ~\E k \in Judges : bench[k].at = "reveal" /\ bench[k].round.id = n
          BY <1>1, <1>6, <4>1 DEF InHand
        <5>2. QED
          BY <3>5, <4>1, <5>1 DEF InHand
      <4>3. r.born = filed[n] /\ r \in Round
        BY <4>2 DEF BlindInv, BlindTypeOK, RoundsRecorded, FiledAs
      <4>4. r \in kept
        <5>1. r.born \in Nat /\ time \in Nat
          BY <3>1, <4>3 DEF BlindInv, BlindTypeOK
        <5>2. Age(r, now) < Lifetime
          BY <1>3, <4>1, <4>3, <5>1, BlindAssumption DEF Age
        <5>3. QED
          BY <4>2, <5>2
      <4>5. r \in Evicted(kept)
        BY <1>2, <4>2, <4>4
      <4>6. \A s \in kept : s.id \in 1..Len(filed) /\ filed[s.id] = s.born
        BY <1>7 DEF BlindInv, RoundsRecorded, FiledAs
      <4>7. \A s, t \in kept : s.id = t.id => s = t
        BY <1>7, RecordedUnique
      <4>8. IsFiniteSet(kept)
        <5>1. IsFiniteSet(1..Len(filed))
          <6>1. Len(filed) \in Int /\ 1 \in Int
            BY <1>4
          <6>2. QED
            BY <6>1, FS_Interval
        <5>2. QED
          BY <1>7, <4>6, <4>7, <5>1, CountByIds
      <4>9. Cardinality(kept) >= Room /\ \A s \in kept : r.born <= s.born
        BY <1>7, <4>5, <4>8, EvictedIsOldest
      <4> DEFINE others == kept \ {r}
                 ids == NotBefore(n)' \ {new.id}
      <4>10. Cardinality(others) = Cardinality(kept) - 1 /\ Cardinality(kept) \in Nat
        BY <4>4, <4>8, FS_RemoveElement, FS_CardinalityType
      <4>11. new.id \in NotBefore(n)'
        BY <1>0, <1>4, <1>5, <2>3 DEF NotBefore
      <4>12. IsFiniteSet(ids) /\ Cardinality(ids) = Cardinality(NotBefore(n)') - 1
        BY <3>2, <4>11, FS_RemoveElement
      <4>13. ASSUME NEW s \in others PROVE s.id \in ids
        <5>1. s.id \in 1..Len(filed) /\ s.id # n /\ filed[s.id] >= filed[n]
          <6>1. s \in kept /\ s # r
            OBVIOUS
          <6>2. s.id # r.id
            BY <4>4, <4>7, <6>1
          <6>3. r.born <= s.born /\ filed[s.id] = s.born /\ s.id \in 1..Len(filed)
            BY <4>6, <4>9, <6>1
          <6>4. s.born \in Nat /\ r.born \in Nat
            BY <1>7, <4>3, <6>1 DEF Round
          <6>5. QED
            BY <4>2, <4>3, <6>2, <6>3, <6>4
        <5>2. filed'[s.id] >= filed'[n] /\ s.id \in DOMAIN filed' /\ s.id # new.id
          BY <1>0, <1>4, <1>5, <3>1, <5>1
        <5>3. QED
          BY <5>1, <5>2 DEF NotBefore
      <4>14. others \in SUBSET Round /\ \A s, t \in others : s.id = t.id => s = t
        BY <1>7, <4>7
      <4>15. Cardinality(others) <= Cardinality(ids)
        BY <4>12, <4>13, <4>14, CountByIds
      <4>16. QED
        BY <3>2, <4>9, <4>10, <4>12, <4>15, BlindAssumption
    <3>6. QED
      BY <3>4, <3>5
  <2>4. QED
    BY <1>4, <2>2, <2>3
<1>17. QED
  BY <1>8, <1>10, <1>11, <1>12, <1>13, <1>15, <1>16 DEF BlindInv

-----------------------------------------------------------------------------
LEMMA BlindInvariant == BlindSpec => []BlindInv
<1>1. BlindInv /\ [BlindNext]_blindVars => BlindInv'
  <2>1. SUFFICES ASSUME BlindInv, [BlindNext]_blindVars PROVE BlindInv'
    OBVIOUS
  <2>2. CASE UNCHANGED blindVars
    BY <2>1, <2>2 DEF blindVars, BlindInv, BlindTypeOK, RoundsRecorded, FiledAs, DatesPast, OnePlace,
       AnsweredWhenFiled, RevealedOnce, YoungRoundsStay, InHand
  <2>3. CASE BlindNext
    BY <2>1, <2>3, QuietKeeps, FileKeeps, AnswerKeeps, TakeOutKeeps DEF BlindNext
  <2>4. QED
    BY <2>1, <2>2, <2>3
<1>2. QED
  BY <1>1, BlindInvInit, PTL DEF BlindSpec

\* Reveals that run in parallel, for any number of threads: a round gets at most
\* one answer, and none while it can still be taken out.
THEOREM RevealedAtMostOnce == BlindSpec => []RevealedOnce
<1>1. BlindInv => RevealedOnce
  BY DEF BlindInv
<1>2. QED
  BY <1>1, BlindInvariant, PTL

\* For a table of any size: a round that could still be revealed is given up only
\* when at least that many rounds came later or are not older.
THEOREM YoungRoundsAlwaysStay == BlindSpec => []YoungRoundsStay
<1>1. BlindInv => YoungRoundsStay
  BY DEF BlindInv
<1>2. QED
  BY <1>1, BlindInvariant, PTL

-----------------------------------------------------------------------------
(***************************************************************************)
(* Runs and their event stream.                                            *)
(***************************************************************************)

\* What is sent, and what a viewer may be told.
Event == [type : {"progress", "result", "done", "lagged"}, run : Nat, n : Nat]
Place == [at : {"none", "measure", "conclude", "store", "announce", "over"},
          n : 0..Scenarios, alone : BOOLEAN]
Seat == [at : {"away", "joined", "reading", "left"}, joined : Nat, next : Nat, got : Seq(Event)]

RunTypeOK ==
  /\ runs \in 0..MaxRuns
  /\ stage \in [1..MaxRuns -> Place]
  /\ sent \in Seq(Event)
  /\ lastResult \in 0..MaxRuns
  /\ viewer \in [Viewers -> Seat]

\* Before place p of s, run r shows its n-th scenario and then its result.
Shown(s, p, r, n) ==
  \E i, j \in 1..Len(s) : i < j /\ j < p /\ s[i] = Progress(r, n) /\ s[j] = Result(r, n)

\* What run r, at st, has sent in s: its scenarios in turn, each concluded, then its
\* Done; last is the stored response.
Ordered(st, s, last, r) ==
  /\ st.at = "conclude" => \E i \in 1..Len(s) : s[i] = Progress(r, st.n)
  /\ st.at \in {"measure", "conclude"} =>
       st.n >= 1 /\ \A n \in 1..(st.n - 1) : Shown(s, Len(s) + 1, r, n)
  /\ st.at \in {"store", "announce", "over"} =>
       \A n \in 1..Scenarios : Shown(s, Len(s) + 1, r, n)
  /\ st.at \in {"announce", "over"} => last # 0
  /\ \A p \in 1..Len(s) :
       s[p] = Finished(r) => st.at = "over" /\ \A n \in 1..Scenarios : Shown(s, p, r, n)

\* After at most one replayed result (b) the viewer has what was sent since it joined.
Copied(w, s, b) ==
  /\ Len(w.got) = b + (w.next - 1 - w.joined)
  /\ b = 1 => w.got[1].type = "result"
  /\ \A i \in (w.joined + 1)..(w.next - 1) : w.got[b + i - w.joined] = s[i]

ReplayedFirst(w, s) ==
  \A r \in 1..MaxRuns, i \in 1..w.joined :
    s[i] = Finished(r) => w.got # <<>> /\ w.got[1].type = "result"

Transcript(w, s) ==
  /\ w.joined <= Len(s)
  /\ w.at # "reading" => w.got = <<>>
  /\ w.at = "joined" => w.next = w.joined + 1
  /\ w.at = "reading" =>
       /\ w.joined < w.next /\ w.next <= Len(s) + 1
       /\ Contains(w.got, Lagged) \/ \E b \in 0..1 : Copied(w, s, b)
       /\ ReplayedFirst(w, s)

RunInv ==
  /\ RunTypeOK
  /\ \A r \in 1..MaxRuns :
       (r > runs => stage[r].at = "none") /\ Ordered(stage[r], sent, lastResult, r)
  /\ \A v \in Viewers : Transcript(viewer[v], sent)

-----------------------------------------------------------------------------
\* t is s with e after it.
Grows(t, s, e) ==
  /\ Len(s) \in Nat /\ Len(t) = Len(s) + 1
  /\ t[Len(s) + 1] = e
  /\ \A i \in 1..Len(s) : t[i] = s[i]

LEMMA AppendGrows ==
  ASSUME NEW S, NEW s \in Seq(S), NEW e \in S
  PROVE  Append(s, e) \in Seq(S) /\ Grows(Append(s, e), s, e)
BY DEF Grows

LEMMA EventsTyped ==
  ASSUME NEW r \in Nat, NEW n \in Nat
  PROVE  /\ Progress(r, n) \in Event /\ Result(r, n) \in Event /\ Finished(r) \in Event
         /\ Lagged \in Event
BY DEF Event, Progress, Result, Finished, Lagged

LEMMA ShownGrows ==
  ASSUME NEW t, NEW s, NEW e, Grows(t, s, e), NEW p, NEW r, NEW n, Shown(s, p, r, n)
  PROVE  Shown(t, p, r, n)
<1>1. PICK i, j \in 1..Len(s) :
           i < j /\ j < p /\ s[i] = Progress(r, n) /\ s[j] = Result(r, n)
  BY DEF Shown
<1>2. i \in 1..Len(t) /\ j \in 1..Len(t) /\ t[i] = s[i] /\ t[j] = s[j]
  BY DEF Grows
<1>3. QED
  BY <1>1, <1>2 DEF Shown

LEMMA ShownLater ==
  ASSUME NEW s, Len(s) \in Nat, NEW r, NEW n, NEW p \in Nat, p > Len(s),
         Shown(s, Len(s) + 1, r, n)
  PROVE  Shown(s, p, r, n)
BY DEF Shown

\* What was in order stays so when something else is sent.
LEMMA OrderedGrows ==
  ASSUME NEW t, NEW s, NEW e, Grows(t, s, e), NEW r, e # Finished(r),
         NEW st \in Place, NEW last, Ordered(st, s, last, r)
  PROVE  Ordered(st, t, last, r)
<1>0. Len(s) \in Nat /\ Len(t) = Len(s) + 1
  BY DEF Grows
<1>1. st.at = "conclude" => \E i \in 1..Len(t) : t[i] = Progress(r, st.n)
  BY DEF Ordered, Grows
<1>2. ASSUME NEW n, Shown(s, Len(s) + 1, r, n) PROVE Shown(t, Len(t) + 1, r, n)
  <2>1. Shown(s, Len(t) + 1, r, n)
    BY <1>0, <1>2, ShownLater
  <2>2. QED
    BY <2>1, ShownGrows
<1>3. ASSUME NEW p \in 1..Len(t), t[p] = Finished(r)
      PROVE  st.at = "over" /\ \A n \in 1..Scenarios : Shown(t, p, r, n)
  <2>1. p \in 1..Len(s) /\ s[p] = Finished(r)
    BY <1>3 DEF Grows
  <2>2. st.at = "over" /\ \A n \in 1..Scenarios : Shown(s, p, r, n)
    BY <2>1 DEF Ordered
  <2>3. QED
    BY <2>2, ShownGrows
<1>4. QED
  BY <1>1, <1>2, <1>3 DEF Ordered

LEMMA TranscriptGrows ==
  ASSUME NEW t, NEW s, NEW e, Grows(t, s, e), NEW w \in Seat, Transcript(w, s)
  PROVE  Transcript(w, t)
<1>1. /\ Len(s) \in Nat /\ Len(t) = Len(s) + 1 /\ w.joined \in Nat /\ w.next \in Nat
      /\ \A i \in 1..Len(s) : t[i] = s[i]
      /\ w.joined <= Len(s)
  BY DEF Grows, Seat, Transcript
<1>2. ASSUME NEW b, Copied(w, s, b), w.next <= Len(s) + 1 PROVE Copied(w, t, b)
  BY <1>1, <1>2 DEF Copied
<1>3. ReplayedFirst(w, s) => ReplayedFirst(w, t)
  BY <1>1 DEF ReplayedFirst
<1>4. QED
  BY <1>1, <1>2, <1>3 DEF Transcript

\* A step of run r that sends e and leaves the viewers alone.
LEMMA RunMoves ==
  ASSUME RunInv, NEW r \in 1..MaxRuns, r <= runs, NEW e \in Event,
         \A q \in 1..MaxRuns : q # r => e # Finished(q),
         sent' = Append(sent, e), NEW st \in Place, stage' = [stage EXCEPT ![r] = st],
         Ordered(st, sent', lastResult, r), UNCHANGED <<runs, lastResult, viewer>>
  PROVE  RunInv'
<1>1. sent' \in Seq(Event) /\ Grows(sent', sent, e)
  BY AppendGrows DEF RunInv, RunTypeOK
<1>2. RunTypeOK'
  BY <1>1 DEF RunInv, RunTypeOK
<1>3. ASSUME NEW q \in 1..MaxRuns
      PROVE  (q > runs => stage'[q].at = "none") /\ Ordered(stage'[q], sent', lastResult, q)
  <2>1. CASE q = r
    BY <2>1 DEF RunInv, RunTypeOK
  <2>2. CASE q # r
    <3>1. stage'[q] = stage[q] /\ stage[q] \in Place
      BY <2>2 DEF RunInv, RunTypeOK
    <3>2. (q > runs => stage[q].at = "none") /\ Ordered(stage[q], sent, lastResult, q)
      BY DEF RunInv
    <3>3. QED
      BY <1>1, <2>2, <3>1, <3>2, OrderedGrows
  <2>3. QED
    BY <2>1, <2>2
<1>4. ASSUME NEW v \in Viewers PROVE Transcript(viewer[v], sent')
  <2>1. viewer[v] \in Seat /\ Transcript(viewer[v], sent)
    BY DEF RunInv, RunTypeOK
  <2>2. QED
    BY <1>1, <2>1, TranscriptGrows
<1>5. QED
  BY <1>2, <1>3, <1>4 DEF RunInv

LEMMA MeasureKeeps ==
  ASSUME RunInv, NEW r \in 1..MaxRuns, Measure(r)
  PROVE  RunInv'
<1> DEFINE st == [stage[r] EXCEPT !.at = "conclude"]
           e == Progress(r, stage[r].n)
<1>1. PICK s0 \in Place : s0 = stage[r]
  BY DEF RunInv, RunTypeOK
<1>2. s0.at = "measure" /\ s0.n \in Nat /\ r \in Nat /\ r <= runs /\ Ordered(s0, sent, lastResult, r)
  <2>1. s0.at = "measure" /\ (r > runs => s0.at = "none") /\ Ordered(s0, sent, lastResult, r)
    BY <1>1 DEF Measure, RunInv
  <2>2. r \in Nat /\ runs \in Nat /\ s0.n \in 0..Scenarios /\ Scenarios \in Nat
    BY RunAssumption DEF RunInv, RunTypeOK, Place
  <2>3. QED
    BY <2>1, <2>2
<1>3. /\ st \in Place /\ st.at = "conclude" /\ st.n = s0.n
      /\ stage' = [stage EXCEPT ![r] = st]
  BY <1>1 DEF Measure, Place
<1>4. e \in Event /\ (\A q : e # Finished(q)) /\ e = Progress(r, s0.n)
  BY <1>1, <1>2, EventsTyped DEF Progress, Finished
<1>5. sent' = Append(sent, e) /\ UNCHANGED <<runs, lastResult, viewer>>
  BY DEF Measure
<1> HIDE DEF st, e
<1>6. Grows(sent', sent, e)
  BY <1>4, <1>5, AppendGrows DEF RunInv, RunTypeOK
<1>7. Ordered(s0, sent', lastResult, r)
  BY <1>2, <1>4, <1>6, OrderedGrows
<1>8. Ordered(st, sent', lastResult, r)
  <2>1. Len(sent') \in 1..Len(sent') /\ sent'[Len(sent')] = Progress(r, st.n)
    BY <1>3, <1>4, <1>6 DEF Grows
  <2>2. QED
    BY <1>2, <1>3, <1>7, <2>1 DEF Ordered
<1>9. QED
  BY <1>2, <1>3, <1>4, <1>5, <1>8, RunMoves

LEMMA ConcludeKeeps ==
  ASSUME RunInv, NEW r \in 1..MaxRuns, Conclude(r)
  PROVE  RunInv'
<1> DEFINE st == IF stage[r].n < Scenarios
                 THEN [at |-> "measure", n |-> stage[r].n + 1, alone |-> stage[r].alone]
                 ELSE [at |-> "store", n |-> stage[r].n, alone |-> stage[r].alone]
           e == Result(r, stage[r].n)
<1>1. PICK s0 \in Place : s0 = stage[r]
  BY DEF RunInv, RunTypeOK
<1>2. /\ s0.at = "conclude" /\ s0.n \in 0..Scenarios /\ Scenarios \in Nat /\ r \in Nat /\ r <= runs
      /\ Ordered(s0, sent, lastResult, r)
  <2>1. s0.at = "conclude" /\ r <= runs
    <3>1. stage[r].at = "conclude"
      BY DEF Conclude
    <3>2. r \in Nat /\ runs \in Nat /\ (r > runs => stage[r].at = "none")
      BY RunAssumption DEF RunInv, RunTypeOK
    <3>3. QED
      BY <1>1, <3>1, <3>2
  <2>2. s0.n \in 0..Scenarios /\ Scenarios \in Nat /\ r \in Nat
    BY <1>1, RunAssumption DEF Place
  <2>3. Ordered(s0, sent, lastResult, r)
    BY <1>1 DEF RunInv
  <2>4. QED
    BY <2>1, <2>2, <2>3
<1>3. /\ st \in Place /\ st.n \in Nat
      /\ st.at = IF s0.n < Scenarios THEN "measure" ELSE "store"
      /\ s0.n < Scenarios => st.n = s0.n + 1
  BY <1>1, <1>2 DEF Place
<1>4. stage' = [stage EXCEPT ![r] = st]
  <2>1. CASE s0.n < Scenarios
    BY <1>1, <2>1 DEF Conclude, RunInv, RunTypeOK, Place
  <2>2. CASE ~(s0.n < Scenarios)
    <3>1. stage' = [stage EXCEPT ![r].at = "store"]
      BY <1>1, <2>2 DEF Conclude
    <3>2. st = [s0 EXCEPT !.at = "store"]
      BY <1>1, <2>2 DEF Place
    <3>3. QED
      BY <1>1, <3>1, <3>2
  <2>3. QED
    BY <2>1, <2>2
<1>5. e \in Event /\ (\A q : e # Finished(q)) /\ e = Result(r, s0.n)
  <2>1. e = Result(r, s0.n) /\ s0.n \in Nat
    BY <1>1, <1>2
  <2>2. QED
    BY <1>2, <2>1, EventsTyped DEF Result, Finished
<1>6. sent' = Append(sent, e) /\ UNCHANGED <<runs, lastResult, viewer>>
  BY DEF Conclude
<1> HIDE DEF st, e
<1>7. Grows(sent', sent, e)
  BY <1>5, <1>6, AppendGrows DEF RunInv, RunTypeOK
<1>8. Ordered(s0, sent', lastResult, r)
  BY <1>2, <1>5, <1>7, OrderedGrows
<1>9. \A n \in 1..s0.n : Shown(sent', Len(sent') + 1, r, n)
  <2>1. PICK i \in 1..Len(sent) : sent[i] = Progress(r, s0.n)
    BY <1>2 DEF Ordered
  <2>2. /\ i \in 1..Len(sent') /\ Len(sent') \in 1..Len(sent') /\ i < Len(sent')
        /\ sent'[i] = Progress(r, s0.n) /\ sent'[Len(sent')] = Result(r, s0.n)
    BY <1>5, <1>7, <2>1 DEF Grows
  <2>3. Shown(sent', Len(sent') + 1, r, s0.n)
    BY <2>2 DEF Shown
  <2>4. \A n \in 1..(s0.n - 1) : Shown(sent', Len(sent') + 1, r, n)
    BY <1>2, <1>8 DEF Ordered
  <2>5. QED
    BY <1>2, <2>3, <2>4
<1>10. Ordered(st, sent', lastResult, r)
  <2>1. \A p \in 1..Len(sent') : sent'[p] # Finished(r)
    BY <1>2, <1>8 DEF Ordered
  <2>2. CASE s0.n < Scenarios
    BY <1>2, <1>3, <1>9, <2>1, <2>2, SMTT(30) DEF Ordered
  <2>3. CASE ~(s0.n < Scenarios)
    BY <1>2, <1>3, <1>9, <2>1, <2>3, SMTT(30) DEF Ordered
  <2>4. QED
    BY <2>2, <2>3
<1>11. QED
  BY <1>2, <1>3, <1>4, <1>5, <1>6, <1>10, RunMoves

LEMMA AnnounceKeeps ==
  ASSUME RunInv, NEW r \in 1..MaxRuns, Announce(r)
  PROVE  RunInv'
<1> DEFINE st == [stage[r] EXCEPT !.at = "over"]
           e == Finished(r)
<1>1. PICK s0 \in Place : s0 = stage[r]
  BY DEF RunInv, RunTypeOK
<1>2. /\ s0.at = "announce" /\ r \in Nat /\ r <= runs /\ Len(sent) \in Nat
      /\ Ordered(s0, sent, lastResult, r)
  <2>1. s0.at = "announce" /\ r <= runs
    <3>1. stage[r].at = "announce"
      BY DEF Announce
    <3>2. r \in Nat /\ runs \in Nat /\ (r > runs => stage[r].at = "none")
      BY RunAssumption DEF RunInv, RunTypeOK
    <3>3. QED
      BY <1>1, <3>1, <3>2
  <2>2. r \in Nat /\ Len(sent) \in Nat
    BY RunAssumption DEF RunInv, RunTypeOK
  <2>3. Ordered(s0, sent, lastResult, r)
    BY <1>1 DEF RunInv
  <2>4. QED
    BY <2>1, <2>2, <2>3
<1>3. st \in Place /\ st.at = "over" /\ stage' = [stage EXCEPT ![r] = st]
  BY <1>1 DEF Announce, Place
<1>4. e \in Event /\ \A q \in 1..MaxRuns : q # r => e # Finished(q)
  BY <1>2, EventsTyped DEF Finished
<1>5. sent' = Append(sent, e) /\ UNCHANGED <<runs, lastResult, viewer>>
  BY DEF Announce
<1>6. Grows(sent', sent, e)
  BY <1>4, <1>5, AppendGrows DEF RunInv, RunTypeOK
<1>7. \A n \in 1..Scenarios : Shown(sent, Len(sent) + 1, r, n)
  BY <1>2 DEF Ordered
<1>8. \A p \in 1..Len(sent) : sent[p] # Finished(r)
  BY <1>2 DEF Ordered
<1>9. Ordered(st, sent', lastResult, r)
  <2>0. Len(sent') = Len(sent) + 1 /\ lastResult # 0
    BY <1>2, <1>6 DEF Grows, Ordered
  <2>1. \A n \in 1..Scenarios : Shown(sent', Len(sent'), r, n)
    BY <1>6, <1>7, <2>0, ShownGrows
  <2>2. \A n \in 1..Scenarios : Shown(sent', Len(sent') + 1, r, n)
    <3>1. \A n \in 1..Scenarios : Shown(sent, Len(sent') + 1, r, n)
      BY <1>2, <1>7, <2>0, ShownLater
    <3>2. QED
      BY <1>6, <3>1, ShownGrows
  <2>3. ASSUME NEW p \in 1..Len(sent'), sent'[p] = Finished(r) PROVE p = Len(sent')
    BY <1>2, <1>6, <1>8, <2>0, <2>3 DEF Grows
  <2> HIDE DEF st
  <2>4. QED
    BY <1>3, <2>0, <2>1, <2>2, <2>3 DEF Ordered
<1> HIDE DEF st, e
<1>10. QED
  BY <1>2, <1>3, <1>4, <1>5, <1>9, RunMoves

\* The other steps of a run: nothing is sent.
LEMMA QuietRunKeeps ==
  ASSUME RunInv,
         \/ BeginRun \/ SilentRun
         \/ \E r \in 1..MaxRuns : Store(r) \/ ClientLeaves(r)
  PROVE  RunInv'
<1>1. /\ sent' = sent /\ viewer' = viewer
      /\ runs' = runs \/ (runs' = runs + 1 /\ runs < MaxRuns)
      /\ lastResult' = lastResult \/ lastResult' \in 1..MaxRuns
  BY DEF BeginRun, SilentRun, Store, ClientLeaves
<1>2. ASSUME NEW q \in 1..MaxRuns
      PROVE  /\ stage'[q] \in Place /\ (q > runs' => stage'[q].at = "none")
             /\ Ordered(stage'[q], sent, lastResult', q)
  <2>0. PICK s0 \in Place : s0 = stage[q]
    BY DEF RunInv, RunTypeOK
  <2>1. /\ runs \in Nat /\ lastResult \in Nat /\ MaxRuns \in Nat /\ 1 \in 0..Scenarios
        /\ (q > runs => s0.at = "none") /\ Ordered(s0, sent, lastResult, q)
        /\ s0.n \in 0..Scenarios /\ Scenarios \in Nat
    BY <2>0, RunAssumption DEF RunInv, RunTypeOK, Place
  <2>2. CASE stage'[q] = s0
    BY <1>1, <2>0, <2>1, <2>2 DEF Ordered
  <2>3. CASE BeginRun /\ q = runs + 1
    <3>1. stage'[q] = [at |-> "measure", n |-> 1, alone |-> FALSE] /\ runs' = runs + 1
      BY <2>3 DEF BeginRun, RunInv, RunTypeOK
    <3>2. stage'[q] \in Place /\ stage'[q].at = "measure" /\ stage'[q].n = 1
      BY <2>1, <3>1 DEF Place
    <3>3. \A p \in 1..Len(sent) : sent[p] # Finished(q)
      BY <2>1, <2>3 DEF Ordered
    <3>4. QED
      BY <2>1, <2>3, <3>1, <3>2, <3>3 DEF Ordered
  <2>4. CASE Store(q)
    <3>1. /\ s0.at = "store" /\ lastResult' = q /\ runs' = runs
          /\ stage'[q] = [s0 EXCEPT !.at = "announce"]
      BY <2>0, <2>4 DEF Store, RunInv, RunTypeOK
    <3>2. stage'[q] \in Place /\ stage'[q].at = "announce"
      BY <3>1 DEF Place
    <3>3. \A p \in 1..Len(sent) : sent[p] # Finished(q)
      BY <2>1, <3>1 DEF Ordered
    <3>4. QED
      BY <2>1, <3>1, <3>2, <3>3 DEF Ordered
  <2>5. CASE ClientLeaves(q)
    <3>1. /\ stage'[q] = [s0 EXCEPT !.alone = TRUE] /\ lastResult' = lastResult /\ runs' = runs
      BY <2>0, <2>5 DEF ClientLeaves, RunInv, RunTypeOK
    <3>2. stage'[q] \in Place /\ stage'[q].at = s0.at /\ stage'[q].n = s0.n
      BY <3>1 DEF Place
    <3>3. QED
      BY <2>1, <3>1, <3>2 DEF Ordered
  <2>6. QED
    BY <2>0, <2>2, <2>3, <2>4, <2>5 DEF BeginRun, SilentRun, Store, ClientLeaves, RunInv, RunTypeOK
<1>3. RunTypeOK'
  <2>1. stage' \in [1..MaxRuns -> Place]
    <3>1. stage' = [q \in 1..MaxRuns |-> stage'[q]]
      BY DEF BeginRun, SilentRun, Store, ClientLeaves, RunInv, RunTypeOK
    <3>2. QED
      BY <1>2, <3>1
  <2>2. runs' \in 0..MaxRuns /\ lastResult' \in 0..MaxRuns
    BY <1>1, RunAssumption DEF RunInv, RunTypeOK
  <2>3. QED
    BY <1>1, <2>1, <2>2 DEF RunInv, RunTypeOK
<1>4. QED
  BY <1>1, <1>2, <1>3 DEF RunInv

-----------------------------------------------------------------------------
\* A step of viewer v.
LEMMA ViewerMoves ==
  ASSUME RunInv, NEW v \in Viewers, NEW w \in Seat, viewer' = [viewer EXCEPT ![v] = w],
         Transcript(w, sent), UNCHANGED <<runs, stage, sent, lastResult>>
  PROVE  RunInv'
BY DEF RunInv, RunTypeOK

LEMMA SeatWritten ==
  ASSUME NEW w \in Seat, NEW at, NEW next, NEW got
  PROVE  /\ [w EXCEPT !.at = at, !.got = got]
              = [at |-> at, joined |-> w.joined, next |-> w.next, got |-> got]
         /\ [w EXCEPT !.next = next, !.got = got]
              = [at |-> w.at, joined |-> w.joined, next |-> next, got |-> got]
<1>1. w = [at |-> w.at, joined |-> w.joined, next |-> w.next, got |-> w.got]
  BY DEF Seat
<1>2. PICK w1 : w1 = [w EXCEPT !.at = at]
  OBVIOUS
<1>3. w1 = [at |-> at, joined |-> w.joined, next |-> w.next, got |-> w.got]
  BY <1>1, <1>2
<1>4. PICK w2 : w2 = [w EXCEPT !.next = next]
  OBVIOUS
<1>5. w2 = [at |-> w.at, joined |-> w.joined, next |-> next, got |-> w.got]
  BY <1>1, <1>4
<1>6. [w1 EXCEPT !.got = got] = [at |-> at, joined |-> w.joined, next |-> w.next, got |-> got]
  BY <1>3
<1>7. [w2 EXCEPT !.got = got] = [at |-> w.at, joined |-> w.joined, next |-> next, got |-> got]
  BY <1>5
<1>8. QED
  BY <1>2, <1>4, <1>6, <1>7

LEMMA ReplayKeeps ==
  ASSUME RunInv, NEW v \in Viewers, Replay(v)
  PROVE  RunInv'
<1> DEFINE got == IF lastResult = 0 THEN <<>> ELSE <<Result(lastResult, Scenarios)>>
           w == [at |-> "reading", joined |-> viewer[v].joined, next |-> viewer[v].next, got |-> got]
<1>1. PICK w0 \in Seat : w0 = viewer[v]
  BY DEF RunInv, RunTypeOK
<1>2. /\ w0.at = "joined" /\ w0.joined \in Nat /\ w0.joined <= Len(sent) /\ w0.next = w0.joined + 1
      /\ Len(sent) \in Nat
  BY <1>1 DEF Replay, RunInv, RunTypeOK, Transcript, Seat
<1>3. got \in Seq(Event)
  <2>1. PICK e \in Event : e = Result(lastResult, Scenarios)
    BY RunAssumption, EventsTyped DEF RunInv, RunTypeOK
  <2>2. <<e>> \in Seq(Event) /\ <<>> \in Seq(Event)
    OBVIOUS
  <2>3. QED
    BY <2>1, <2>2
<1>4. viewer' = [viewer EXCEPT ![v] = w]
  <2>1. viewer' = [viewer EXCEPT ![v].at = "reading", ![v].got = got]
    BY DEF Replay
  <2> HIDE DEF got
  <2>2. w = [w0 EXCEPT !.at = "reading", !.got = got]
    <3>1. w = [at |-> "reading", joined |-> w0.joined, next |-> w0.next, got |-> got]
      BY <1>1
    <3> HIDE DEF w
    <3>2. QED
      BY <3>1, SeatWritten
  <2>3. QED
    BY <1>1, <2>1, <2>2 DEF RunInv, RunTypeOK, Seat
<1>5. w \in Seat
  BY <1>1, <1>2, <1>3 DEF Seat
<1>6. Transcript(w, sent)
  <2>1. Copied(w, sent, IF lastResult = 0 THEN 0 ELSE 1)
    BY <1>1, <1>2 DEF Copied, Result
  <2>2. ReplayedFirst(w, sent)
    <3>1. ASSUME NEW r \in 1..MaxRuns, NEW i \in 1..w0.joined, sent[i] = Finished(r)
          PROVE  lastResult # 0
      BY <1>2, <3>1 DEF RunInv, Ordered
    <3>2. lastResult # 0 => got # <<>> /\ got[1].type = "result"
      BY DEF Result
    <3>3. QED
      BY <1>1, <3>1, <3>2 DEF ReplayedFirst
  <2>3. \E b \in 0..1 : Copied(w, sent, b)
    BY <2>1
  <2>4. w.at = "reading" /\ w.joined = w0.joined /\ w.next = w0.next
    BY <1>1
  <2> HIDE DEF w
  <2>5. QED
    BY <1>2, <2>2, <2>3, <2>4 DEF Transcript
<1> HIDE DEF w, got
<1>7. QED
  BY <1>4, <1>5, <1>6, ViewerMoves DEF Replay

LEMMA ReceiveKeeps ==
  ASSUME RunInv, NEW v \in Viewers, Receive(v)
  PROVE  RunInv'
<1> DEFINE lags == viewer[v].next + Capacity <= Len(sent)
           e == IF lags THEN Lagged ELSE sent[viewer[v].next]
           next == IF lags THEN Len(sent) - Capacity + 1 ELSE viewer[v].next + 1
           w == [at |-> "reading", joined |-> viewer[v].joined, next |-> next,
                 got |-> Append(viewer[v].got, e)]
<1>1. PICK w0 \in Seat : w0 = viewer[v]
  BY DEF RunInv, RunTypeOK
<1>2. /\ w0.at = "reading" /\ w0.joined \in Nat /\ w0.next \in Nat /\ w0.got \in Seq(Event)
      /\ w0.next <= Len(sent) /\ Len(sent) \in Nat /\ Capacity \in Nat \ {0}
      /\ Transcript(w0, sent)
  BY <1>1, RunAssumption DEF Receive, RunInv, RunTypeOK, Seat
<1>3. w0.joined < w0.next /\ w0.joined <= Len(sent) /\ ReplayedFirst(w0, sent)
  BY <1>2 DEF Transcript
<1>4. e \in Event
  <2>1. sent \in Seq(Event) /\ w0.next \in 1..Len(sent) /\ Lagged \in Event
    BY <1>2, <1>3 DEF RunInv, RunTypeOK, Lagged, Event
  <2>2. sent[w0.next] \in Event
    BY <2>1
  <2>3. QED
    BY <1>1, <2>1, <2>2
<1>5. /\ next \in Nat /\ w0.joined < next /\ next <= Len(sent) + 1
  <2>1. CASE lags
    <3>1. next = Len(sent) - Capacity + 1 /\ w0.next + Capacity <= Len(sent)
      BY <1>1, <2>1
    <3>2. QED
      BY <1>2, <1>3, <3>1
  <2>2. CASE ~lags
    <3>1. next = w0.next + 1
      BY <1>1, <2>2
    <3>2. QED
      BY <1>2, <1>3, <3>1
  <2>3. QED
    BY <2>1, <2>2
<1>6. viewer' = [viewer EXCEPT ![v] = w]
  <2>1. CASE lags
    <3>1. viewer' = [viewer EXCEPT ![v].next = Len(sent) - Capacity + 1, ![v].got = Append(@, Lagged)]
      BY <2>1 DEF Receive
    <3>2. /\ w = [at |-> "reading", joined |-> w0.joined, next |-> next, got |-> Append(w0.got, e)]
          /\ next = Len(sent) - Capacity + 1 /\ e = Lagged
      BY <1>1, <2>1
    <3> HIDE DEF next, e, w
    <3>3. w0.at = "reading"
      BY <1>2
    <3>4. w = [w0 EXCEPT !.next = next, !.got = Append(w0.got, e)]
      <4>1. PICK g : g = Append(w0.got, e)
        OBVIOUS
      <4>2. w = [at |-> w0.at, joined |-> w0.joined, next |-> next, got |-> g]
        BY <3>2, <3>3, <4>1
      <4>3. w = [w0 EXCEPT !.next = next, !.got = g]
        BY <4>2, SeatWritten
      <4>4. QED
        BY <4>1, <4>3
    <3>5. QED
      BY <1>1, <3>1, <3>2, <3>4 DEF RunInv, RunTypeOK, Seat
  <2>2. CASE ~lags
    <3>1. viewer' = [viewer EXCEPT ![v].next = @ + 1, ![v].got = Append(@, sent[viewer[v].next])]
      BY <2>2 DEF Receive
    <3>2. /\ w = [at |-> "reading", joined |-> w0.joined, next |-> next, got |-> Append(w0.got, e)]
          /\ next = w0.next + 1 /\ e = sent[w0.next]
      BY <1>1, <2>2
    <3> HIDE DEF next, e, w
    <3>3. w0.at = "reading"
      BY <1>2
    <3>4. w = [w0 EXCEPT !.next = next, !.got = Append(w0.got, e)]
      <4>1. PICK g : g = Append(w0.got, e)
        OBVIOUS
      <4>2. w = [at |-> w0.at, joined |-> w0.joined, next |-> next, got |-> g]
        BY <3>2, <3>3, <4>1
      <4>3. w = [w0 EXCEPT !.next = next, !.got = g]
        BY <4>2, SeatWritten
      <4>4. QED
        BY <4>1, <4>3
    <3>5. QED
      BY <1>1, <3>1, <3>2, <3>4 DEF RunInv, RunTypeOK, Seat
  <2>3. QED
    BY <2>1, <2>2
<1>7. Append(w0.got, e) \in Seq(Event) /\ Grows(Append(w0.got, e), w0.got, e)
  BY <1>2, <1>4, AppendGrows
<1>8. /\ w \in Seat /\ w.at = "reading" /\ w.joined = w0.joined /\ w.next = next
      /\ w.got = Append(w0.got, e)
  BY <1>1, <1>2, <1>5, <1>7 DEF Seat
<1>9. lags => e = Lagged
  OBVIOUS
<1>10. ~lags => e = sent[w0.next] /\ next = w0.next + 1
  BY <1>1
<1> HIDE DEF w, e, next, lags
<1>11. Contains(w.got, Lagged) \/ \E b \in 0..1 : Copied(w, sent, b)
  <2>1. CASE lags \/ Contains(w0.got, Lagged)
    BY <1>7, <1>8, <1>9, <2>1 DEF Contains, Grows
  <2>2. CASE ~lags /\ ~Contains(w0.got, Lagged)
    <3>1. PICK b \in 0..1 : Copied(w0, sent, b)
      BY <1>2, <2>2 DEF Transcript
    <3>2. PICK j \in Nat, k \in Nat, l \in Nat :
               /\ j = w0.joined /\ k = w0.next /\ l = Len(w0.got) /\ j < k
               /\ l = b + (k - 1 - j)
      BY <1>2, <1>3, <3>1 DEF Copied
    <3>3. /\ w.next = k + 1 /\ w.joined = j
          /\ Len(w.got) = l + 1 /\ w.got[l + 1] = sent[k]
          /\ \A i \in 1..l : w.got[i] = w0.got[i]
      BY <1>7, <1>8, <1>10, <2>2, <3>2 DEF Grows
    <3>4. l + 1 = b + (k + 1 - 1 - j)
      BY <3>2
    <3>5. b = 1 => w.got[1].type = "result"
      <4>1. b = 1 => 1 \in 1..l
        BY <3>2
      <4>2. QED
        BY <3>1, <3>3, <4>1 DEF Copied
    <3>6. ASSUME NEW i \in (j + 1)..k
          PROVE  w.got[b + i - j] = sent[i]
      <4>1. CASE i = k
        <5>1. b + i - j = l + 1
          BY <3>2, <4>1
        <5>2. QED
          BY <3>3, <4>1, <5>1
      <4>2. CASE i # k
        <5>1. i \in (j + 1)..(k - 1) /\ b + i - j \in 1..l
          BY <3>2, <4>2
        <5>2. w0.got[b + i - j] = sent[i]
          BY <3>1, <3>2, <5>1 DEF Copied
        <5>3. QED
          BY <3>3, <5>1, <5>2
      <4>3. QED
        BY <4>1, <4>2
    <3>7. QED
      <4>1. k + 1 - 1 = k
        OBVIOUS
      <4>2. QED
        BY <3>3, <3>4, <3>5, <3>6, <4>1 DEF Copied
  <2>3. QED
    BY <2>1, <2>2
<1>12. ReplayedFirst(w, sent)
  <2>1. ASSUME w0.got # <<>>, w0.got[1].type = "result"
        PROVE  w.got # <<>> /\ w.got[1].type = "result"
    BY <1>2, <1>7, <1>8, <2>1 DEF Grows
  <2>2. QED
    BY <1>3, <1>8, <2>1 DEF ReplayedFirst
<1>13. Transcript(w, sent)
  BY <1>3, <1>5, <1>8, <1>11, <1>12 DEF Transcript
<1>14. QED
  BY <1>6, <1>8, <1>13, ViewerMoves DEF Receive

LEMMA ComesAndGoes ==
  ASSUME RunInv, NEW v \in Viewers, Subscribe(v) \/ Unsubscribe(v)
  PROVE  RunInv'
<1>1. <<>> \in Seq(Event) /\ Len(sent) \in Nat
  BY DEF RunInv, RunTypeOK
<1>2. CASE Subscribe(v)
  <2> DEFINE w == [at |-> "joined", joined |-> Len(sent), next |-> Len(sent) + 1, got |-> <<>>]
  <2>1. w \in Seat /\ Transcript(w, sent)
    BY <1>1 DEF Seat, Transcript
  <2>2. viewer' = [viewer EXCEPT ![v] = w] /\ UNCHANGED <<runs, stage, sent, lastResult>>
    BY <1>2 DEF Subscribe
  <2> HIDE DEF w
  <2>3. QED
    BY <2>1, <2>2, ViewerMoves
<1>3. CASE Unsubscribe(v)
  <2> DEFINE w == [Away EXCEPT !.at = "left"]
  <2>0. w = [at |-> "left", joined |-> 0, next |-> 0, got |-> <<>>]
    BY DEF Away
  <2> HIDE DEF w
  <2>1. w \in Seat /\ Transcript(w, sent)
    BY <1>1, <2>0 DEF Seat, Transcript
  <2>2. viewer' = [viewer EXCEPT ![v] = w] /\ UNCHANGED <<runs, stage, sent, lastResult>>
    BY <1>3 DEF Unsubscribe, w
  <2>3. QED
    BY <2>1, <2>2, ViewerMoves
<1>4. QED
  BY <1>2, <1>3

LEMMA RunInvInit == RunInit => RunInv
<1> SUFFICES ASSUME RunInit PROVE RunInv
  OBVIOUS
<1>1. <<>> \in Seq(Event) /\ Len(<<>>) = 0
  OBVIOUS
<1>2. Away \in Seat /\ Transcript(Away, <<>>)
  BY <1>1 DEF Away, Seat, Transcript
<1>3. [at |-> "none", n |-> 0, alone |-> FALSE] \in Place
  BY RunAssumption DEF Place
<1>4. \A r : Ordered([at |-> "none", n |-> 0, alone |-> FALSE], <<>>, 0, r)
  BY <1>1 DEF Ordered
<1>5. RunTypeOK
  BY <1>1, <1>2, <1>3, RunAssumption DEF RunInit, RunTypeOK
<1>6. QED
  BY <1>2, <1>4, <1>5 DEF RunInit, RunInv

LEMMA RunInvariant == RunSpec => []RunInv
<1>1. RunInv /\ [RunNext]_runVars => RunInv'
  <2> SUFFICES ASSUME RunInv, [RunNext]_runVars PROVE RunInv'
    OBVIOUS
  <2>1. CASE UNCHANGED runVars
    BY <2>1 DEF runVars, RunInv, RunTypeOK
  <2>2. CASE RunNext
    BY <2>2, QuietRunKeeps, MeasureKeeps, ConcludeKeeps, AnnounceKeeps, ComesAndGoes,
       ReplayKeeps, ReceiveKeeps DEF RunNext
  <2>3. QED
    BY <2>1, <2>2
<1>2. QED
  BY <1>1, RunInvInit, PTL DEF RunSpec

\* Whoever joins after a run's Done is shown a stored result first.
THEOREM LateViewerAlwaysCatchesUp == RunSpec => []LateViewerCatchesUp
<1>1. RunInv => LateViewerCatchesUp
  <2> SUFFICES ASSUME RunInv, NEW v \in Viewers, NEW r \in 1..MaxRuns,
                      viewer[v].at = "reading",
                      NEW i \in 1..viewer[v].joined, sent[i] = Finished(r)
               PROVE  viewer[v].got # <<>> /\ viewer[v].got[1].type = "result"
    BY DEF LateViewerCatchesUp
  <2>1. ReplayedFirst(viewer[v], sent)
    BY DEF RunInv, Transcript
  <2>2. QED
    BY <2>1 DEF ReplayedFirst
<1>2. QED
  BY <1>1, RunInvariant, PTL

\* A viewer that lost nothing has a run's results, each after its progress, before
\* that run's Done.
THEOREM DoneAlwaysAfterResults == RunSpec => []DoneAfterResults
<1>1. RunInv => DoneAfterResults
  <2>0. SUFFICES ASSUME RunInv, NEW v \in Viewers, NEW r \in 1..MaxRuns,
                      Got(v, Finished(r)), ~Got(v, Lagged),
                      \A i \in 1..viewer[v].joined : sent[i].run # r,
                      NEW n \in 1..Scenarios
               PROVE  /\ Got(v, Result(r, n)) /\ Got(v, Progress(r, n))
                      /\ \E i, j \in DOMAIN viewer[v].got :
                           i < j /\ viewer[v].got[i] = Progress(r, n)
                                 /\ viewer[v].got[j] = Result(r, n)
                      /\ \E i \in DOMAIN viewer[v].got :
                           viewer[v].got[i] = Result(r, n)
                           /\ i < PlaceIn(viewer[v].got, Finished(r))
    BY DEF DoneAfterResults
  <2>1. PICK w \in Seat : w = viewer[v]
    BY <2>0 DEF RunInv, RunTypeOK
  <2>2. /\ w.joined \in Nat /\ w.next \in Nat /\ w.got \in Seq(Event)
        /\ DOMAIN w.got = 1..Len(w.got) /\ Len(w.got) \in Nat /\ Transcript(w, sent)
        /\ Len(sent) \in Nat
    BY <2>0, <2>1 DEF Seat, RunInv, RunTypeOK
  <2>3. \E i \in 1..Len(w.got) : w.got[i] = Finished(r)
    BY <2>0, <2>1 DEF Got, Contains
  <2>4. w.at = "reading"
    BY <2>2, <2>3 DEF Transcript
  <2>5. PICK b \in 0..1 : Copied(w, sent, b)
    BY <2>0, <2>1, <2>2, <2>4 DEF Transcript, Got
  <2>6. PICK x \in Nat, y \in Nat, l \in Nat, m \in Nat :
             /\ x = w.joined /\ y = w.next /\ l = Len(w.got) /\ m = Len(sent)
             /\ x < y /\ y <= m + 1 /\ l = b + (y - 1 - x)
    BY <2>2, <2>4, <2>5 DEF Transcript, Copied
  <2>20. x < y /\ y <= m + 1 /\ l = b + (y - 1 - x)
    BY <2>6
  <2>7. PICK place \in 1..l : place = PlaceIn(w.got, Finished(r)) /\ w.got[place] = Finished(r)
    BY <2>2, <2>3, <2>6 DEF PlaceIn
  <2>9. place > b
    <3>1. CASE b = 1
      <4>1. w.got[1].type = "result"
        BY <2>5, <3>1 DEF Copied
      <4>2. place # 1
        BY <2>7, <4>1 DEF Finished
      <4>3. QED
        BY <2>7, <3>1, <4>2
    <3>2. QED
      BY <2>7, <3>1
  <2>8. PICK p \in Int : p = place - b + x
    OBVIOUS
  <2>10. p \in (x + 1)..(y - 1) /\ p \in 1..m /\ b + p - x = place
    BY <2>20, <2>8, <2>9
  <2>11. sent[p] = Finished(r)
    BY <2>5, <2>6, <2>7, <2>10 DEF Copied
  <2>12. Shown(sent, p, r, n)
    BY <2>0, <2>6, <2>10, <2>11 DEF RunInv, Ordered
  <2>13. PICK i, j \in 1..m :
              i < j /\ j < p /\ sent[i] = Progress(r, n) /\ sent[j] = Result(r, n)
    BY <2>6, <2>12 DEF Shown
  <2>14. sent[i].run = r /\ sent[j].run = r
    BY <2>13 DEF Progress, Result
  <2>15. i > x /\ j > x
    <3>1. \A q \in 1..x : sent[q].run # r
      BY <2>0, <2>1, <2>6
    <3>2. QED
      BY <2>14, <3>1
  <2>16. /\ i \in (x + 1)..(y - 1) /\ j \in (x + 1)..(y - 1)
         /\ b + i - x \in 1..l /\ b + j - x \in 1..l
         /\ b + i - x < b + j - x /\ b + j - x < place
    BY <2>20, <2>10, <2>13, <2>15
  <2>17. w.got[b + i - x] = Progress(r, n) /\ w.got[b + j - x] = Result(r, n)
    BY <2>5, <2>6, <2>13, <2>16 DEF Copied
  <2>18. \E q, t \in 1..l : /\ q < t /\ t < place
                            /\ w.got[q] = Progress(r, n) /\ w.got[t] = Result(r, n)
    BY <2>16, <2>17
  <2>19. QED
    BY <2>1, <2>2, <2>6, <2>7, <2>18 DEF Got, Contains
<1>2. QED
  BY <1>1, RunInvariant, PTL

-----------------------------------------------------------------------------
(***************************************************************************)
(* Locks.  Every request takes its locks in the order of their ranks and   *)
(* gives back all it took.  What a thread holds is what the rest of its    *)
(* script is going to release; so of the threads that wait, one for the    *)
(* lock of the highest rank waits for nobody.                              *)
(***************************************************************************)

LockNames == ServerLocks \cup People
LockActs == [do : {"pass", "acquire", "release"}, lock : LockNames]

Rank(l) == IF l \in People THEN 1
           ELSE IF l = "qds" THEN 2
           ELSE IF l = "trent" THEN 3
           ELSE IF l \in {"audit", "last", "log"} THEN 4 ELSE 0

Above(l, held) == \A h \in held : Rank(h) < Rank(l)

\* One step of a script, by a thread that holds `held` before it and `next` after it.
Goes(held, act, next) ==
  \/ act.do = "pass" /\ Above(act.lock, held) /\ next = held
  \/ act.do = "acquire" /\ Above(act.lock, held) /\ next = held \cup {act.lock}
  \/ act.do = "release" /\ act.lock \in held /\ next = held \ {act.lock}

\* A script, step by step, through the sets of locks in f.
Passes(s, f, n) ==
  /\ f \in [0..n -> SUBSET LockNames]
  /\ \A i \in 1..n : Goes(f[i - 1], s[i], f[i])

Leads(s, held, end) ==
  /\ s \in Seq(LockActs)
  /\ \E f : Passes(s, f, Len(s)) /\ f[0] = held /\ f[Len(s)] = end

LEMMA LeadsNowhere ==
  ASSUME NEW held \in SUBSET LockNames
  PROVE  Leads(<<>>, held, held)
<1> DEFINE f == [i \in 0..0 |-> held]
<1>1. f \in [0..0 -> SUBSET LockNames] /\ f[0] = held
  OBVIOUS
<1>2. <<>> \in Seq(LockActs) /\ Len(<<>>) = 0
  OBVIOUS
<1>3. Passes(<<>>, f, 0)
  BY <1>1 DEF Passes
<1>4. QED
  BY <1>1, <1>2, <1>3 DEF Leads

LEMMA LeadsEnds ==
  ASSUME NEW held, NEW end, Leads(<<>>, held, end)
  PROVE  held = end
<1>1. Len(<<>>) = 0
  OBVIOUS
<1>2. QED
  BY <1>1 DEF Leads

LEMMA LeadsOne ==
  ASSUME NEW act \in LockActs, NEW held \in SUBSET LockNames, NEW next \in SUBSET LockNames,
         Goes(held, act, next)
  PROVE  Leads(<<act>>, held, next)
<1> DEFINE f == [i \in 0..1 |-> IF i = 0 THEN held ELSE next]
<1>1. f \in [0..1 -> SUBSET LockNames] /\ f[0] = held /\ f[1] = next
  OBVIOUS
<1>2. <<act>> \in Seq(LockActs) /\ Len(<<act>>) = 1 /\ <<act>>[1] = act
  OBVIOUS
<1>3. Passes(<<act>>, f, 1)
  <2>1. SUFFICES ASSUME NEW i \in 1..1 PROVE Goes(f[i - 1], <<act>>[i], f[i])
    BY <1>1 DEF Passes
  <2>2. i = 1 /\ i - 1 = 0
    OBVIOUS
  <2>3. QED
    BY <1>1, <1>2, <2>2
<1>4. QED
  BY <1>1, <1>2, <1>3 DEF Leads

LEMMA LeadsOn ==
  ASSUME NEW s, NEW t, NEW held, NEW middle, NEW end,
         Leads(s, held, middle), Leads(t, middle, end)
  PROVE  Leads(s \o t, held, end)
<1>1. s \in Seq(LockActs) /\ t \in Seq(LockActs)
  BY DEF Leads
<1>2. PICK n \in Nat : n = Len(s)
  BY <1>1
<1>3. PICK m \in Nat : m = Len(t)
  BY <1>1
<1>4. PICK f : Passes(s, f, n) /\ f[0] = held /\ f[n] = middle
  BY <1>2 DEF Leads
<1>5. PICK g : Passes(t, g, m) /\ g[0] = middle /\ g[m] = end
  BY <1>3 DEF Leads
<1>6. PICK st : st = s \o t
  OBVIOUS
<1>7. /\ st \in Seq(LockActs) /\ Len(st) = n + m
      /\ \A i \in 1..n : st[i] = s[i]
      /\ \A i \in (n + 1)..(n + m) : st[i] = t[i - n]
  BY <1>1, <1>2, <1>3, <1>6
<1> DEFINE h == [i \in 0..(n + m) |-> IF i <= n THEN f[i] ELSE g[i - n]]
<1>8. /\ f \in [0..n -> SUBSET LockNames] /\ \A i \in 1..n : Goes(f[i - 1], s[i], f[i])
      /\ g \in [0..m -> SUBSET LockNames] /\ \A i \in 1..m : Goes(g[i - 1], t[i], g[i])
  BY <1>4, <1>5 DEF Passes
<1>9. h \in [0..(n + m) -> SUBSET LockNames]
  BY <1>8
<1>10. \A i \in 0..n : h[i] = f[i]
  OBVIOUS
<1>11. \A i \in n..(n + m) : h[i] = g[i - n]
  BY <1>4, <1>5
<1> HIDE DEF h
<1>12. ASSUME NEW i \in 1..(n + m) PROVE Goes(h[i - 1], st[i], h[i])
  <2>1. CASE i <= n
    <3>1. i \in 1..n /\ i \in 0..n /\ i - 1 \in 0..n
      BY <2>1
    <3>2. QED
      BY <1>7, <1>8, <1>10, <3>1
  <2>2. CASE i > n
    <3>1. i \in (n + 1)..(n + m) /\ i \in n..(n + m) /\ i - 1 \in n..(n + m)
      BY <2>2
    <3>2. PICK j \in 1..m : j = i - n /\ (i - 1) - n = j - 1
      BY <2>2
    <3>3. st[i] = t[j] /\ h[i] = g[j] /\ h[i - 1] = g[j - 1]
      BY <1>7, <1>11, <3>1, <3>2
    <3>4. QED
      BY <1>8, <3>3
  <2>3. QED
    BY <2>1, <2>2
<1>13. Passes(st, h, n + m)
  BY <1>9, <1>12 DEF Passes
<1>14. h[0] = held /\ h[n + m] = end
  <2>1. 0 \in 0..n /\ n + m \in n..(n + m) /\ (n + m) - n = m
    OBVIOUS
  <2>2. QED
    BY <1>4, <1>5, <1>10, <1>11, <2>1
<1>15. QED
  BY <1>6, <1>7, <1>13, <1>14 DEF Leads

\* A thread at a script of such a request has a step it may take, and is then at
\* the rest of it.
LEMMA LeadsStep ==
  ASSUME NEW s, NEW held, NEW end, Leads(s, held, end), s # <<>>
  PROVE  /\ Head(s) \in LockActs
         /\ \E next \in SUBSET LockNames : Goes(held, Head(s), next) /\ Leads(Tail(s), next, end)
<1>1. s \in Seq(LockActs)
  BY DEF Leads
<1>2. PICK n \in Nat : Len(s) = n + 1
  <2>1. PICK k \in Nat : k = Len(s)
    BY <1>1
  <2>2. k # 0
    BY <1>1, <2>1
  <2>3. k - 1 \in Nat /\ k = (k - 1) + 1
    BY <2>2
  <2>4. QED
    BY <2>1, <2>3
<1>3. PICK f : Passes(s, f, n + 1) /\ f[0] = held /\ f[n + 1] = end
  BY <1>2 DEF Leads
<1>4. /\ Head(s) = s[1] /\ s[1] \in LockActs
      /\ Tail(s) \in Seq(LockActs) /\ Len(Tail(s)) = n
      /\ \A i \in 1..n : Tail(s)[i] = s[i + 1]
  BY <1>1, <1>2
<1>5. /\ f \in [0..(n + 1) -> SUBSET LockNames]
      /\ \A i \in 1..(n + 1) : Goes(f[i - 1], s[i], f[i])
  BY <1>3 DEF Passes
<1>6. Goes(held, Head(s), f[1]) /\ f[1] \in SUBSET LockNames
  <2>1. 1 \in 1..(n + 1) /\ 1 \in 0..(n + 1) /\ 1 - 1 = 0
    OBVIOUS
  <2>2. QED
    BY <1>3, <1>4, <1>5, <2>1
<1> DEFINE g == [i \in 0..n |-> f[i + 1]]
<1>7. g \in [0..n -> SUBSET LockNames] /\ \A i \in 0..n : g[i] = f[i + 1]
  BY <1>5
<1> HIDE DEF g
<1>8. PICK rest : rest = Tail(s)
  OBVIOUS
<1>9. ASSUME NEW i \in 1..n PROVE Goes(g[i - 1], rest[i], g[i])
  <2>1. i + 1 \in 1..(n + 1) /\ (i + 1) - 1 = i /\ i \in 0..n /\ i - 1 \in 0..n /\ (i - 1) + 1 = i
    OBVIOUS
  <2>2. Goes(f[i], s[i + 1], f[i + 1])
    BY <1>5, <2>1
  <2>3. QED
    BY <1>4, <1>7, <1>8, <2>1, <2>2
<1>10. Passes(rest, g, n)
  BY <1>7, <1>9 DEF Passes
<1>11. g[0] = f[1] /\ g[n] = end
  <2>1. 0 \in 0..n /\ n \in 0..n /\ 0 + 1 = 1
    OBVIOUS
  <2>2. QED
    BY <1>3, <1>7, <2>1
<1>12. Leads(rest, f[1], end)
  BY <1>4, <1>8, <1>10, <1>11 DEF Leads
<1>13. QED
  BY <1>4, <1>6, <1>8, <1>12

-----------------------------------------------------------------------------
\* A script that gives back what it takes, begun with `held`.
Keeps(s, held) == held \in SUBSET LockNames /\ Leads(s, held, held)

LEMMA KeepsOn ==
  ASSUME NEW s, NEW t, NEW held, Keeps(s, held), Keeps(t, held)
  PROVE  Keeps(s \o t, held)
BY LeadsOn DEF Keeps

LEMMA RankType == \A l : Rank(l) \in Nat
BY DEF Rank

LEMMA KeepsBrief ==
  ASSUME NEW l \in LockNames, NEW held \in SUBSET LockNames, Above(l, held)
  PROVE  Keeps(Brief(l), held)
<1>1. PICK act : act = [do |-> "pass", lock |-> l]
  OBVIOUS
<1>2. act \in LockActs /\ Goes(held, act, held)
  BY <1>1 DEF LockActs, Goes
<1>3. Leads(<<act>>, held, held)
  BY <1>2, LeadsOne
<1>4. QED
  BY <1>1, <1>3 DEF Keeps, Brief

LEMMA KeepsHolding ==
  ASSUME NEW l \in LockNames, NEW held \in SUBSET LockNames, Above(l, held),
         NEW inner, Keeps(inner, held \cup {l})
  PROVE  Keeps(Holding(l, inner), held)
<1>1. PICK act : act = [do |-> "acquire", lock |-> l]
  OBVIOUS
<1>2. PICK back : back = [do |-> "release", lock |-> l]
  OBVIOUS
<1>3. l \notin held
  BY RankType DEF Above
<1>4. act \in LockActs /\ back \in LockActs
  BY <1>1, <1>2 DEF LockActs
<1>5. PICK more \in SUBSET LockNames : more = held \cup {l}
  OBVIOUS
<1>6. Goes(held, act, more) /\ Goes(more, back, held)
  BY <1>1, <1>2, <1>3, <1>5 DEF Goes
<1>7. Leads(<<act>>, held, more) /\ Leads(<<back>>, more, held)
  BY <1>4, <1>6, LeadsOne
<1>8. Leads(inner, more, more)
  BY <1>5 DEF Keeps
<1>9. Leads(<<act>> \o inner, held, more)
  BY <1>7, <1>8, LeadsOn
<1>10. Leads((<<act>> \o inner) \o <<back>>, held, held)
  BY <1>7, <1>9, LeadsOn
<1>11. QED
  BY <1>1, <1>2, <1>10 DEF Keeps, Holding

LEMMA Ranks ==
  /\ \A u \in People : Rank(u) = 1
  /\ Rank("qds") = 2 /\ Rank("trent") = 3
  /\ Rank("audit") = 4 /\ Rank("last") = 4 /\ Rank("log") = 4
BY LockAssumption DEF Rank, ServerLocks

\* The pieces of the requests, begun with nothing or with one workspace.
LEMMA BriefPieces ==
  /\ \A l \in LockNames : Keeps(Brief(l), {})
  /\ \A u \in People : Keeps(Audited, {u})
  /\ Keeps(Audited, {})
<1>1. ASSUME NEW l \in LockNames PROVE Keeps(Brief(l), {})
  BY <1>1, KeepsBrief DEF Above
<1>2. ASSUME NEW u \in People PROVE Keeps(Audited, {u})
  <2>1. {u} \in SUBSET LockNames /\ "audit" \in LockNames /\ Above("audit", {u})
    BY <1>2, Ranks DEF LockNames, ServerLocks, Above
  <2>2. QED
    BY <2>1, KeepsBrief DEF Audited
<1>3. "audit" \in LockNames
  BY DEF LockNames, ServerLocks
<1>4. QED
  BY <1>1, <1>2, <1>3 DEF Audited

LEMMA NotaryPieces ==
  ASSUME NEW held, held = {} \/ \E u \in People : held = {u}
  PROVE  Keeps(Notarized, held)
<1>1. PICK more : more = held \cup {"qds"}
  OBVIOUS
<1>2. /\ held \in SUBSET LockNames /\ more \in SUBSET LockNames
      /\ "qds" \in LockNames /\ "trent" \in LockNames
  BY <1>1 DEF LockNames, ServerLocks
<1>3. Above("qds", held) /\ Above("trent", more)
  BY <1>1, Ranks DEF Above
<1>4. Keeps(Brief("trent"), more)
  BY <1>2, <1>3, KeepsBrief
<1>5. QED
  BY <1>1, <1>2, <1>3, <1>4, KeepsHolding DEF Notarized

LEMMA WorkspacePiece ==
  ASSUME NEW u \in People, NEW inner, Keeps(inner, {u})
  PROVE  Keeps(Ws(u, inner), {})
<1>1. /\ u \in LockNames /\ {} \in SUBSET LockNames /\ Above(u, {}) /\ {} \cup {u} = {u}
      /\ "map" \in LockNames
  BY DEF LockNames, ServerLocks, Above
<1>2. Keeps(Holding(u, inner), {})
  BY <1>1, KeepsHolding
<1>3. QED
  BY <1>1, <1>2, BriefPieces, KeepsOn DEF Ws

LEMMA EmptyWorkspace ==
  ASSUME NEW u \in People
  PROVE  Keeps(Ws(u, <<>>), {})
<1>1. {u} \in SUBSET LockNames
  BY DEF LockNames
<1>2. Keeps(<<>>, {u})
  BY <1>1, LeadsNowhere DEF Keeps
<1>3. QED
  BY <1>2, WorkspacePiece

\* The requests of accounts.
LEMMA OwnKeep ==
  ASSUME NEW u \in People
  PROVE  /\ Keeps(LoginLocks(u), {}) /\ Keeps(KeyLocks(u), {}) /\ Keeps(SealLocks(u), {})
         /\ Keeps(VerifyInboxLocks(u), {}) /\ Keeps(OpenLocks(u), {}) /\ Keeps(TheaterLocks(u), {})
         /\ Keeps(ClaimLocks(u), {})
<1> DEFINE W == Ws(u, <<>>)
<1>1. Keeps(W, {})
  BY EmptyWorkspace
<1>2. Keeps(Audited, {}) /\ Keeps(Audited, {u}) /\ Keeps(Notarized, {}) /\ Keeps(Notarized, {u})
  BY BriefPieces, NotaryPieces
<1>3. /\ Keeps(Brief("fails"), {}) /\ Keeps(Brief("store"), {}) /\ Keeps(Brief("sessions"), {})
      /\ Keeps(Brief("relay"), {})
  BY BriefPieces DEF LockNames, ServerLocks
<1>4. Keeps(Ws(u, Audited \o Notarized \o Audited), {}) /\ Keeps(Ws(u, Notarized), {})
  <2>1. Keeps(Audited \o Notarized \o Audited, {u})
    BY <1>2, KeepsOn
  <2>2. QED
    BY <1>2, <2>1, WorkspacePiece
<1> HIDE DEF W
<1>5. Keeps(LoginLocks(u), {})
  BY <1>1, <1>2, <1>3, KeepsOn DEF LoginLocks, W
<1>6. Keeps(KeyLocks(u), {})
  BY <1>1, <1>2, KeepsOn DEF KeyLocks, W
<1>7. Keeps(SealLocks(u), {})
  BY <1>2, <1>4, KeepsOn DEF SealLocks
<1>8. Keeps(VerifyInboxLocks(u), {})
  BY <1>1, <1>2, KeepsOn DEF VerifyInboxLocks, W
<1>9. Keeps(OpenLocks(u), {})
  BY <1>1, <1>2, KeepsOn DEF OpenLocks, W
<1>10. Keeps(TheaterLocks(u), {})
  BY <1>1, <1>2, <1>4, KeepsOn DEF TheaterLocks, W
<1>11. Keeps(ClaimLocks(u), {})
  BY <1>1, <1>2, <1>3, KeepsOn DEF ClaimLocks, W
<1>12. QED
  BY <1>5, <1>6, <1>7, <1>8, <1>9, <1>10, <1>11

\* The requests between two accounts.
LEMMA SharedKeep ==
  ASSUME NEW u \in People, NEW v \in People
  PROVE  /\ Keeps(SendLocks(u, v), {}) /\ Keeps(DistributeLocks(u, v), {})
         /\ Keeps(PledgeLocks(u, v), {}) /\ Keeps(AttestLocks(u, v), {})
<1>1. PICK wu : wu = Ws(u, <<>>)
  OBVIOUS
<1>2. PICK wv : wv = Ws(v, <<>>)
  OBVIOUS
<1>3. Keeps(wu, {}) /\ Keeps(wv, {}) /\ Keeps(Audited, {}) /\ Keeps(Notarized, {})
  BY <1>1, <1>2, EmptyWorkspace, BriefPieces, NotaryPieces
<1>4. Keeps(SendLocks(u, v), {})
  <2>1. Keeps(wu \o Audited \o Notarized \o wv \o wv \o wv \o Audited \o wu \o Audited, {})
    BY <1>3, KeepsOn
  <2>2. QED
    BY <1>1, <1>2, <2>1 DEF SendLocks
<1>5. Keeps(DistributeLocks(u, v), {})
  <2>1. Keeps(wu \o wv \o wv \o wu \o Audited, {})
    BY <1>3, KeepsOn
  <2>2. QED
    BY <1>1, <1>2, <2>1 DEF DistributeLocks
<1>6. Keeps(PledgeLocks(u, v), {})
  <2>1. Keeps(wu \o wv \o Audited, {})
    BY <1>3, KeepsOn
  <2>2. QED
    BY <1>1, <1>2, <2>1 DEF PledgeLocks
<1>7. Keeps(AttestLocks(u, v), {})
  <2>1. Keeps(wu \o wu \o Notarized \o wu \o wv \o Audited, {})
    BY <1>3, KeepsOn
  <2>2. QED
    BY <1>1, <1>2, <2>1 DEF AttestLocks
<1>8. QED
  BY <1>4, <1>5, <1>6, <1>7

\* The requests to the notary's laboratory.
LEMMA LabKeep ==
  /\ Keeps(ClearLedgerLocks, {}) /\ Keeps(SetupLocks, {}) /\ Keeps(SignLocks, {})
  /\ Keeps(BatteryLocks, {}) /\ Keeps(ConsensusLocks, {}) /\ Keeps(EventsLocks, {})
<1>1. /\ {"audit", "qds", "trent", "last", "log"} \subseteq LockNames
      /\ {} \in SUBSET LockNames /\ {"qds"} \in SUBSET LockNames /\ {"qds", "trent"} \in SUBSET LockNames
  BY DEF LockNames, ServerLocks
<1>2. /\ Above("qds", {}) /\ Above("trent", {"qds"}) /\ Above("last", {"qds"}) /\ Above("log", {"qds"})
      /\ Above("log", {"qds", "trent"})
  BY Ranks DEF Above
<1>3. /\ Keeps(Brief("trent"), {"qds"}) /\ Keeps(Brief("last"), {"qds"}) /\ Keeps(Recorded, {"qds"})
      /\ Keeps(Recorded, {"qds", "trent"})
  BY <1>1, <1>2, KeepsBrief DEF Recorded
<1>4. Keeps(RunVerify, {"qds"}) /\ Keeps(Holding("trent", Recorded), {"qds"})
  <2>1. {"qds"} \cup {"trent"} = {"qds", "trent"}
    OBVIOUS
  <2>2. QED
    BY <1>1, <1>2, <1>3, <2>1, KeepsHolding DEF RunVerify
<1>5. ASSUME NEW inner, Keeps(inner, {"qds"}) PROVE Keeps(Holding("qds", inner), {})
  <2>1. {} \cup {"qds"} = {"qds"}
    OBVIOUS
  <2>2. QED
    BY <1>1, <1>2, <1>5, <2>1, KeepsHolding
<1>6. Keeps(ClearLedgerLocks, {})
  BY <1>1, BriefPieces DEF ClearLedgerLocks
<1>7. Keeps(SetupLocks, {})
  <2>1. Keeps(Brief("last") \o Brief("trent") \o Recorded, {"qds"})
    BY <1>3, KeepsOn
  <2>2. QED
    BY <1>5, <2>1 DEF SetupLocks
<1>8. Keeps(SignLocks, {})
  <2>1. Keeps(Brief("trent") \o Brief("trent") \o Recorded \o RunVerify \o Brief("trent")
                \o Brief("last"), {"qds"})
    BY <1>3, <1>4, KeepsOn
  <2>2. QED
    BY <1>5, <2>1 DEF SignLocks
<1>9. Keeps(BatteryLocks, {})
  <2>1. Keeps(Brief("trent") \o Brief("trent") \o RunVerify \o Brief("trent") \o RunVerify, {"qds"})
    BY <1>3, <1>4, KeepsOn
  <2>2. QED
    BY <1>3, <1>5, <2>1, KeepsOn DEF BatteryLocks
<1>10. Keeps(ConsensusLocks, {})
  BY <1>3, <1>4, <1>5, KeepsOn DEF ConsensusLocks
<1>11. Keeps(EventsLocks, {})
  BY <1>3, <1>5 DEF EventsLocks
<1>12. QED
  BY <1>6, <1>7, <1>8, <1>9, <1>10, <1>11

LEMMA RequestsKeep ==
  ASSUME NEW r \in Requests
  PROVE  Keeps(r, {})
<1>1. CASE r \in AccountRequests
  <2>1. PICK u \in People : r \in OwnRequests(u)
    BY <1>1 DEF AccountRequests
  <2>2. QED
    BY <2>1, OwnKeep DEF OwnRequests
<1>2. CASE r \in PairRequests
  <2>1. PICK p \in People \X People : r \in SharedRequests(p[1], p[2])
    BY <1>2 DEF PairRequests
  <2>2. QED
    BY <2>1, SharedKeep DEF SharedRequests
<1>3. CASE r \in LabRequests
  BY <1>3, LabKeep DEF LabRequests
<1>4. QED
  BY <1>1, <1>2, <1>3 DEF Requests

-----------------------------------------------------------------------------
HeldBy(t) == { l \in Locks : holder[l] = t }

\* What a thread holds is what the rest of its script gives back.
LocksInv ==
  /\ holder \in [Locks -> Threads \cup {Nobody}]
  /\ script \in [Threads -> Seq(LockActs)]
  /\ \A t \in Threads :
       /\ Leads(script[t], HeldBy(t), {})
       /\ \A i \in 1..Len(script[t]) : script[t][i].lock \in Locks

\* Thread t is neither done nor waiting for a lock.
MayStep(t) ==
  script[t] # <<>> /\ (Head(script[t]).do # "release" => holder[Head(script[t]).lock] = Nobody)

\* While a request is unanswered, some thread has a step to take; and a thread only
\* gives back a lock it has.
NeverStuck ==
  /\ (\E t \in Threads : script[t] # <<>>) => \E t \in Threads : MayStep(t)
  /\ \A t \in Threads :
       script[t] # <<>> /\ Head(script[t]).do = "release" => holder[Head(script[t]).lock] = t

LEMMA LocksInvInit == LockInit => LocksInv
<1>1. SUFFICES ASSUME LockInit PROVE LocksInv
  OBVIOUS
<1>2. holder = [l \in Locks |-> Nobody] /\ script \in [Threads -> Requests]
  BY <1>1 DEF LockInit
<1>3. ASSUME NEW t \in Threads
      PROVE  /\ Leads(script[t], HeldBy(t), {}) /\ script[t] \in Seq(LockActs)
             /\ \A i \in 1..Len(script[t]) : script[t][i].lock \in Locks
  <2>1. script[t] \in Requests
    BY <1>2
  <2>2. Leads(script[t], {}, {})
    BY <2>1, RequestsKeep DEF Keeps
  <2>3. HeldBy(t) = {}
    BY <1>2, LockAssumption DEF HeldBy, Nobody
  <2>4. script[t] \in Seq(LockActs)
    BY <2>2 DEF Leads
  <2>5. PICK r \in Requests : r = script[t]
    BY <2>1
  <2>6. \A i \in DOMAIN r : r[i].lock \in Locks
    BY DEF Locks
  <2>7. DOMAIN r = 1..Len(r)
    BY <2>4, <2>5
  <2>8. QED
    BY <2>2, <2>3, <2>4, <2>5, <2>6, <2>7
<1>4. script \in [Threads -> Seq(LockActs)]
  BY <1>2, <1>3
<1>5. QED
  BY <1>2, <1>3, <1>4 DEF LocksInv

\* A lock that is not free is held by a thread.
LEMMA LocksInvStep == LocksInv /\ [LockNext]_lockVars => LocksInv'
<1>1. SUFFICES ASSUME LocksInv, [LockNext]_lockVars PROVE LocksInv'
  OBVIOUS
<1>2. CASE UNCHANGED lockVars
  BY <1>1, <1>2 DEF lockVars, LocksInv, HeldBy
<1>3. ASSUME NEW t \in Threads, LockStep(t) PROVE LocksInv'
  <2>1. PICK s \in Seq(LockActs) : s = script[t]
    BY <1>1 DEF LocksInv
  <2>2. s # <<>> /\ script' = [script EXCEPT ![t] = Tail(s)]
    BY <1>3, <2>1 DEF LockStep
  <2>3. Leads(s, HeldBy(t), {}) /\ \A i \in 1..Len(s) : s[i].lock \in Locks
    BY <1>1, <2>1 DEF LocksInv
  <2>4. PICK act \in LockActs : act = Head(s)
    BY <2>2, <2>3, LeadsStep
  <2>5. PICK next \in SUBSET LockNames : Goes(HeldBy(t), act, next) /\ Leads(Tail(s), next, {})
    BY <2>2, <2>3, <2>4, LeadsStep
  <2>6. PICK l : l = act.lock
    OBVIOUS
  <2>7. l \in Locks
    BY <2>1, <2>2, <2>3, <2>4, <2>6
  <2>8. /\ act.do # "release" => holder[l] = Nobody
        /\ holder' = [holder EXCEPT ![l] = IF act.do = "acquire" THEN t ELSE Nobody]
    BY <1>3, <2>1, <2>4, <2>6 DEF LockStep
  <2>9. /\ holder \in [Locks -> Threads \cup {Nobody}] /\ script \in [Threads -> Seq(LockActs)]
        /\ Nobody \notin Threads
    BY <1>1, LockAssumption DEF LocksInv, Nobody
  <2>10. holder' \in [Locks -> Threads \cup {Nobody}]
    BY <2>7, <2>8, <2>9
  <2>11. Tail(s) \in Seq(LockActs) /\ \A i \in 1..Len(Tail(s)) : Tail(s)[i].lock \in Locks
    BY <2>1, <2>2, <2>3
  <2>12. script' \in [Threads -> Seq(LockActs)]
    BY <2>2, <2>9, <2>11
  <2>13. HeldBy(t)' = next
    <3>1. HeldBy(t) = { k \in Locks : holder[k] = t } /\ HeldBy(t)' = { k \in Locks : holder'[k] = t }
      BY DEF HeldBy
    <3>2. CASE act.do = "pass"
      BY <2>5, <2>6, <2>7, <2>8, <2>9, <3>1, <3>2 DEF Goes
    <3>3. CASE act.do = "acquire"
      BY <2>5, <2>6, <2>7, <2>8, <2>9, <3>1, <3>3 DEF Goes
    <3>4. CASE act.do = "release"
      BY <2>5, <2>6, <2>7, <2>8, <2>9, <3>1, <3>4 DEF Goes
    <3>5. QED
      BY <3>2, <3>3, <3>4 DEF LockActs
  <2>14. ASSUME NEW u \in Threads, u # t PROVE HeldBy(u)' = HeldBy(u)
    <3>1. HeldBy(u) = { k \in Locks : holder[k] = u } /\ HeldBy(u)' = { k \in Locks : holder'[k] = u }
      BY DEF HeldBy
    <3>2. holder[l] \in {t, Nobody}
      BY <2>5, <2>6, <2>7, <2>8 DEF Goes, HeldBy
    <3>3. holder'[l] \in {t, Nobody} /\ \A k \in Locks : k # l => holder'[k] = holder[k]
      BY <2>7, <2>8, <2>9
    <3>4. QED
      BY <2>9, <2>14, <3>1, <3>2, <3>3
  <2>15. ASSUME NEW u \in Threads
         PROVE  /\ Leads(script'[u], HeldBy(u)', {})
                /\ \A i \in 1..Len(script'[u]) : script'[u][i].lock \in Locks
    <3>1. CASE u = t
      <4>1. script'[u] = Tail(s)
        BY <2>2, <2>9, <3>1
      <4>2. QED
        BY <2>5, <2>11, <2>13, <3>1, <4>1
    <3>2. CASE u # t
      <4>1. script'[u] = script[u] /\ HeldBy(u)' = HeldBy(u)
        BY <2>2, <2>9, <2>14, <3>2
      <4>2. QED
        BY <1>1, <4>1 DEF LocksInv
    <3>3. QED
      BY <3>1, <3>2
  <2>16. QED
    BY <2>10, <2>12, <2>15 DEF LocksInv
<1>4. QED
  BY <1>1, <1>2, <1>3 DEF LockNext

\* A thread that waits for a lock: the thread that has it waits too, or may step,
\* and would wait for a lock of a higher rank.
Waits(t, rank) ==
  /\ script[t] # <<>> /\ Head(script[t]).do # "release"
  /\ Rank(Head(script[t]).lock) >= rank

LEMMA WaitsForHigher ==
  ASSUME LocksInv, \A t \in Threads : ~MayStep(t),
         NEW rank \in Nat, NEW t \in Threads, Waits(t, rank)
  PROVE  \E u \in Threads : Waits(u, rank + 1)
<1>1. PICK s \in Seq(LockActs) : s = script[t]
  BY DEF LocksInv
<1>2. s # <<>> /\ Head(s).do # "release" /\ Rank(Head(s).lock) >= rank
  BY <1>1 DEF Waits
<1>3. PICK l : l = Head(s).lock
  OBVIOUS
<1>4. l \in Locks
  <2>1. 1 \in 1..Len(s) /\ Head(s) = s[1]
    BY <1>2
  <2>2. QED
    BY <1>1, <1>3, <2>1 DEF LocksInv
<1>5. holder[l] # Nobody
  BY <1>1, <1>2, <1>3 DEF MayStep
<1>6. PICK u \in Threads : holder[l] = u
  BY <1>4, <1>5 DEF LocksInv
<1>7. l \in HeldBy(u)
  BY <1>4, <1>6 DEF HeldBy
<1>8. PICK r \in Seq(LockActs) : r = script[u]
  BY DEF LocksInv
<1>9. Leads(r, HeldBy(u), {})
  BY <1>8 DEF LocksInv
<1>10. r # <<>>
  BY <1>7, <1>9, LeadsEnds
<1>11. Head(r).do # "release"
  BY <1>8, <1>10 DEF MayStep
<1>12. PICK next : Goes(HeldBy(u), Head(r), next)
  BY <1>9, <1>10, LeadsStep
<1>13. Rank(l) < Rank(Head(r).lock)
  BY <1>7, <1>11, <1>12 DEF Goes, Above
<1>14. Rank(l) \in Nat /\ Rank(Head(r).lock) \in Nat /\ Rank(l) >= rank
  BY <1>2, <1>3, RankType
<1>15. Rank(Head(r).lock) >= rank + 1
  BY <1>13, <1>14
<1>16. QED
  BY <1>8, <1>10, <1>11, <1>15 DEF Waits

LEMMA LocksNeverStuck == LocksInv => NeverStuck
<1>1. SUFFICES ASSUME LocksInv PROVE NeverStuck
  OBVIOUS
<1>2. ASSUME NEW t \in Threads, script[t] # <<>>, \A u \in Threads : ~MayStep(u)
      PROVE  FALSE
  <2>1. Waits(t, 0)
    <3>1. Head(script[t]).do # "release"
      BY <1>2 DEF MayStep
    <3>2. Rank(Head(script[t]).lock) \in Nat
      BY RankType
    <3>3. QED
      BY <1>2, <3>1, <3>2 DEF Waits
  <2>2. \A rank \in Nat : (\E u \in Threads : Waits(u, rank)) => \E u \in Threads : Waits(u, rank + 1)
    BY <1>1, <1>2, WaitsForHigher
  <2>3. \E u \in Threads : Waits(u, 0)
    BY <2>1
  <2>4. \E u \in Threads : Waits(u, 1)
    BY <2>2, <2>3
  <2>5. \E u \in Threads : Waits(u, 2)
    BY <2>2, <2>4
  <2>6. \E u \in Threads : Waits(u, 3)
    BY <2>2, <2>5
  <2>7. \E u \in Threads : Waits(u, 4)
    BY <2>2, <2>6
  <2>8. \E u \in Threads : Waits(u, 5)
    BY <2>2, <2>7
  <2>9. \A l : Rank(l) <= 4
    BY DEF Rank
  <2>10. QED
    BY <2>8, <2>9, RankType DEF Waits
<1>3. ASSUME NEW t \in Threads, script[t] # <<>>, Head(script[t]).do = "release"
      PROVE  holder[Head(script[t]).lock] = t
  <2>1. PICK next : Goes(HeldBy(t), Head(script[t]), next)
    BY <1>1, <1>3, LeadsStep DEF LocksInv
  <2>2. Head(script[t]).lock \in HeldBy(t)
    BY <1>3, <2>1 DEF Goes
  <2>3. QED
    BY <2>2 DEF HeldBy
<1>4. QED
  BY <1>2, <1>3 DEF NeverStuck

\* For any threads and accounts, whatever requests run together: while one of them
\* is unanswered some thread can go on, as nobody waits in a circle, and a thread
\* only releases what it holds.
THEOREM LocksNeverDeadlock == LockSpec => []NeverStuck
<1>1. LockSpec => []LocksInv
  BY LocksInvInit, LocksInvStep, PTL DEF LockSpec
<1>2. QED
  BY <1>1, LocksNeverStuck, PTL
=============================================================================
