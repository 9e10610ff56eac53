----------------------------- MODULE MCServices -----------------------------
(***************************************************************************)
(* Components of the server that share no state, for TLC: a behaviour is   *)
(* of one of them, named by `part`, and the others rest.  The notary's     *)
(* wire, accounts, runs with their stream, the raw key of a run, blinded   *)
(* rounds, six-state sessions, and the locks.                              *)
(***************************************************************************)
EXTENDS QdsWire, Accounts, RunStream, QuantumKey, BlindChallenge, SixState, LockOrder

CONSTANTS n1, m1, m2, e1, e2

\* Two of the orders a shuffle of n positions may lead to, for n up to nine.
TwoOrders == [n \in 0..9 |-> { SelectSeq(o, LAMBDA i : i <= n) :
                o \in {<<3, 6, 8, 1, 9, 4, 7, 2, 5>>, <<8, 2, 5, 1, 7, 9, 3, 6, 4>>} }]

VARIABLE part
Parts == {"wire", "accounts", "runs", "key", "blind", "six-state", "locks"}

allVars == <<part, vars, accountVars, runVars, keyVars, blindVars, sixVars, lockVars>>

ServicesInit ==
  /\ part \in Parts
  /\ Init /\ AccountsInit /\ RunInit /\ KeyInit /\ BlindInit /\ SixInit
  /\ IF part = "locks" THEN LockInit
     ELSE script = [t \in Threads |-> <<>>] /\ holder = [l \in Locks |-> Nobody]

OthersRest ==
  /\ UNCHANGED part
  /\ part # "wire" => UNCHANGED vars
  /\ part # "accounts" => UNCHANGED accountVars
  /\ part # "runs" => UNCHANGED runVars
  /\ part # "key" => UNCHANGED keyVars
  /\ part # "blind" => UNCHANGED blindVars
  /\ part # "six-state" => UNCHANGED sixVars
  /\ part # "locks" => UNCHANGED lockVars

ServicesNext ==
  /\ OthersRest
  /\ \/ part = "wire" /\ Next
     \/ part = "accounts" /\ AccountsNext
     \/ part = "runs" /\ RunNext
     \/ part = "key" /\ KeyNext
     \/ part = "blind" /\ BlindNext
     \/ part = "six-state" /\ SixNext
     \/ part = "locks" /\ LockNext

ServicesSpec == ServicesInit /\ [][ServicesNext]_allVars /\ RunFairness /\ LockFairness
=============================================================================
