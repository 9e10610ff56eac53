--------------------------- MODULE MCRingDelivery ---------------------------
(***************************************************************************)
(* RingDelivery alone: two rings of two and an item of another delivery.   *)
(***************************************************************************)
EXTENDS RingDelivery

NoSpecs == {NoDemand}

TwoRings == {[members |-> <<"ann", "bob">>, k |-> 2], [members |-> <<"bob", "cem">>, k |-> 1]}
=============================================================================
