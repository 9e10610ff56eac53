----------------------------- MODULE MCExchange -----------------------------
(***************************************************************************)
(* Instances of Exchange and of RingDelivery for TLC: a behaviour is of    *)
(* one of them, named by `part`, and the other rests.                      *)
(*                                                                         *)
(* Keys k1 and k3 share a canonical form.  Clients bring a container of    *)
(* the old format and one sealed elsewhere.                                *)
(***************************************************************************)
EXTENDS Exchange, RingDelivery, TLC

CONSTANTS u1, u2, r1, r2

Symmetry == Permutations(Users) \cup Permutations(RingClerks)

CanonicalOf == [k \in Keys |-> IF k = "k3" THEN "k1" ELSE k]

Brought ==
  {ContainerBytes(LegacyDocument("d1", "k1"), FALSE),
   ContainerBytes(SealDocument("d1", "k2"), TRUE)}

Asks(requests, clerks, captures, sends, arrivals) ==
  [asks |-> {"login"} \cup requests, clerks |-> clerks, captures |-> captures,
   sends |-> sends, arrivals |-> arrivals]

\* Each exercises the requests that meet in one property; two handlers at a
\* time where they race for an item or a deposit.
Clients ==
  {Asks({"key", "seal", "transfer"}, {1}, 3, 0, 0),
   Asks({"key", "seal", "attack"}, {1}, 1, 0, 0),
   Asks({"key", "receive", "verify", "delete"}, {1, 2}, 1, 0, 2),
   Asks({"key", "receive", "verify"}, {1}, 2, 0, 1),
   Asks({"key", "theater", "verify"}, {1}, 2, 0, 1),
   Asks({"key", "send", "delete"}, {1}, 1, 1, 1),
   Asks({"send"}, {1}, 0, 1, 2),
   Asks({"key", "deposit", "claim", "delete", "restart"}, {1, 2}, 1, 1, 2)}

\* A ring of two, and one that names an account twice.
PairRings == {[members |-> <<"ann", "bob">>, k |-> 2], [members |-> <<"bob", "bob">>, k |-> 1]}

\* No demand, and one for three acceptances whose tally came with a name twice.
BroughtSpecs ==
  {NoDemand,
   [asked |-> TRUE, k |-> 3, members |-> <<"ann", "bob">>, attested_by |-> <<"ann", "ann">>]}

VARIABLE part

DeliveriesInit == part \in {"exchange", "ring"} /\ ExchangeInit /\ RingInit
                  /\ (part = "ring" => profile = CHOOSE p \in Profiles : TRUE)

DeliveriesNext ==
  /\ UNCHANGED part
  /\ \/ part = "exchange" /\ ExchangeNext /\ UNCHANGED ringVars
     \/ part = "ring" /\ RingNext /\ UNCHANGED exchangeVars

DeliveriesSpec == DeliveriesInit /\ [][DeliveriesNext]_<<part, exchangeVars, ringVars>>
=============================================================================
