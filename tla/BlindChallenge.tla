--------------------------- MODULE BlindChallenge ---------------------------
(***************************************************************************)
(* The blinded rounds of server/src/main.rs: start measures a hidden       *)
(* treatment, commits to it and files the round; reveal takes the round    *)
(* out, once, and answers with what was committed to.                      *)
(*                                                                         *)
(* start reads the clock before it takes the lock of the table, so rounds  *)
(* are filed out of the order of their ages; under the lock it drops the   *)
(* expired ones, makes room, and files its own.  A round is its number and *)
(* its age: nothing changes the rest of it once it is filed, so that its   *)
(* commitment always verifies.                                             *)
(***************************************************************************)
EXTENDS Naturals, Sequences, FiniteSets

CONSTANTS
  Room,          \* how many rounds are kept: 100
  Lifetime,      \* of a round: 900 s
  Judges,        \* the threads that serve requests
  MaxRounds,     \* (bounds the model)
  MaxTime        \* (bounds the model)

ASSUME BlindAssumption ==
  Room \in Nat \ {0} /\ Lifetime \in Nat \ {0} /\ MaxRounds \in Nat /\ MaxTime \in Nat

VARIABLES
  time,       \* Instant::now()
  table,      \* AppState.blind_challenges
  filed,      \* history: when the rounds were dated, in the order they were filed
  bench,      \* what each handler is at
  answers     \* history: how many reveals of a round were answered

blindVars == <<time, table, filed, bench, answers>>

FreeBench == [at |-> "free"]

BlindInit ==
  /\ time = 0 /\ table = {} /\ filed = <<>>
  /\ bench = [j \in Judges |-> FreeBench]
  /\ answers = [n \in 1..MaxRounds |-> 0]

Tick ==
  /\ time < MaxTime
  /\ time' = time + 1
  /\ UNCHANGED <<table, filed, bench, answers>>

\* blind_challenge_start up to the lock: measured, committed to and dated.
Prepare(j) ==
  /\ bench[j] = FreeBench
  /\ bench' = [bench EXCEPT ![j] = [at |-> "file", born |-> time]]
  /\ UNCHANGED <<time, table, filed, answers>>

\* duration_since does not go below zero.
Age(round, now) == IF now > round.born THEN now - round.born ELSE 0

\* Mutant: the newest round makes room.
EvictedNewest(rounds) ==
  IF Cardinality(rounds) < Room THEN {}
  ELSE { CHOOSE r \in rounds : \A s \in rounds : s.born <= r.born }

\* One of the oldest rounds, when there is no room.
Evicted(rounds) ==
  IF Cardinality(rounds) < Room THEN {}
  ELSE { CHOOSE r \in rounds : \A s \in rounds : r.born <= s.born }

\* blind_challenge_start under the lock.
File(j) ==
  /\ bench[j].at = "file" /\ Len(filed) < MaxRounds
  /\ LET now == bench[j].born
         kept == { r \in table : Age(r, now) < Lifetime }
     IN  /\ table' = (kept \ Evicted(kept)) \cup {[id |-> Len(filed) + 1, born |-> now]}
         /\ filed' = Append(filed, now)
  /\ bench' = [bench EXCEPT ![j] = FreeBench]
  /\ UNCHANGED <<time, answers>>

\* Mutant: the round is looked up, and stays.
TakeOutCopies(j, round) ==
  /\ bench[j] = FreeBench
  /\ bench' = [bench EXCEPT ![j] = [at |-> "reveal", round |-> round]]
  /\ UNCHANGED <<time, table, filed, answers>>

\* blind_challenge_reveal: the round is taken out under the lock,
TakeOut(j, round) ==
  /\ bench[j] = FreeBench
  /\ table' = table \ {round}
  /\ bench' = [bench EXCEPT ![j] = [at |-> "reveal", round |-> round]]
  /\ UNCHANGED <<time, filed, answers>>

\* and answered if it has not expired.
Answer(j) ==
  /\ bench[j].at = "reveal"
  /\ LET r == bench[j].round
     IN  answers' = IF Age(r, time) < Lifetime THEN [answers EXCEPT ![r.id] = @ + 1] ELSE answers
  /\ bench' = [bench EXCEPT ![j] = FreeBench]
  /\ UNCHANGED <<time, table, filed>>

BlindNext ==
  \/ Tick
  \/ \E j \in Judges :
       \/ Prepare(j) \/ File(j) \/ Answer(j)
       \/ \E r \in table : TakeOut(j, r)

BlindSpec == BlindInit /\ [][BlindNext]_blindVars

-----------------------------------------------------------------------------
InHand(n) ==
  \/ \E r \in table : r.id = n
  \/ \E j \in Judges : bench[j].at = "reveal" /\ bench[j].round.id = n

\* A round that can still be revealed is given up only for at least Room others
\* that came later or are not older, though rounds are filed out of order.
YoungRoundsStay ==
  \A n \in DOMAIN filed :
    (~InHand(n) /\ answers[n] = 0 /\ time - filed[n] < Lifetime) =>
      Cardinality({ m \in DOMAIN filed \ {n} : m > n \/ filed[m] >= filed[n] }) >= Room

\* "One-time reveal": parallel requests for a round get one answer between them,
\* and none while the round can still be taken out.
RevealedOnce ==
  \A n \in 1..MaxRounds : answers[n] <= 1 /\ (answers[n] = 1 => ~InHand(n))
=============================================================================
