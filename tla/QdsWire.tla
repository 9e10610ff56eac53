------------------------------- MODULE QdsWire -------------------------------
(***************************************************************************)
(* The signature protocol of the qds crate between notaries that share one *)
(* key (TRENT_SEED) and a channel that keeps every signature ever sent:    *)
(* it may lose, delay, duplicate and reorder them, or deliver them with a  *)
(* claim about another message.  Signing, re-binding received bits and     *)
(* verifying are separate calls of the crate, in any order.                *)
(***************************************************************************)
EXTENDS QdsNotary

CONSTANTS
  Notaries,   \* laptops that run a notary with the same seed
  MaxWindow,  \* how far a clock may go (bounds the model)
  MaxNonce    \* how many nonces a notary may issue (bounds the model)

VARIABLES
  trent,      \* the notary of each laptop
  wire,       \* what was sent: [by, msg, sig]
  accepts     \* the acceptances of each laptop, in order: <<window, nonce>>

vars == <<trent, wire, accepts>>

SeedKey == "seed"

Init ==
  /\ trent = [n \in Notaries |-> NewTrent(SeedKey)]
  /\ wire = {}
  /\ accepts = [n \in Notaries |-> <<>>]

\* sign
Sign(n, msg, entropy) ==
  /\ trent[n].window < MaxWindow /\ trent[n].nextNonce <= MaxNonce
  /\ wire' = wire \cup {[by |-> n, msg |-> msg, sig |-> NextSignature(trent[n], msg, entropy)]}
  /\ trent' = [trent EXCEPT ![n] = Signed(@, entropy)]
  /\ UNCHANGED accepts

\* The bits of a signature arrive over a noisy channel and the notary binds
\* what was received to the frontier: issue_nonce, mint_temporal_for.
Rebind(n, sent) ==
  /\ trent[n].nextNonce <= MaxNonce
  /\ wire' = wire \cup {[sent EXCEPT !.by = n, !.sig = Rebinding(trent[n], @.bits)]}
  /\ trent' = [trent EXCEPT ![n] = IssueNonce(@)]
  /\ UNCHANGED accepts

\* verify of a genuine delivery, or of one with a claim about another message.
Verify(n, sent, claimed) ==
  /\ trent' = [trent EXCEPT ![n] = Verified(@, claimed, sent.sig)]
  /\ accepts' = IF Accepts(trent[n], claimed, sent.sig)
                THEN [accepts EXCEPT ![n] = Append(@, <<sent.sig.window, sent.sig.nonce>>)]
                ELSE accepts
  /\ UNCHANGED wire

Next ==
  \E n \in Notaries :
    \/ \E msg \in Message, entropy \in Entropy : Sign(n, msg, entropy)
    \/ \E sent \in wire : Rebind(n, sent)
    \/ \E sent \in wire, claimed \in Message : Verify(n, sent, claimed)

Spec == Init /\ [][Next]_vars

-----------------------------------------------------------------------------
\* "Historical signature reuse is mathematically impossible" (temporal.rs): on
\* one laptop no window and no nonce is ever accepted twice, whatever copies,
\* re-bindings and claims arrive in whatever order.
AcceptedOnce ==
  \A n \in Notaries : \A i, j \in 1..Len(accepts[n]) :
    i # j => /\ accepts[n][i][1] # accepts[n][j][1]
             /\ accepts[n][i][2] # accepts[n][j][2]

\* "A delayed genuine signature still verifies" (verify): as long as its window
\* is not filled and the horizon has not passed, it is accepted - no failed
\* attempt, later session or re-binding under another nonce takes that away.
DelayedStillAccepted ==
  \A s \in wire :
    LET t == trent[s.by]
    IN  /\ s.sig.window \notin { accepts[s.by][i][1] : i \in 1..Len(accepts[s.by]) }
        /\ s.sig.window \in (t.window - Horizon + 1)..t.window
        /\ s.sig.window > 0
        => Accepts(t, s.msg, s.sig)

\* "Always 1-ACC for the genuine signer" (DocumentQdsSignature): the next
\* session a notary signs is accepted by its own verification.
NextSessionAccepted ==
  \A n \in Notaries : \A msg \in Message, entropy \in Entropy :
    Accepts(Signed(trent[n], entropy), msg, NextSignature(trent[n], msg, entropy))

=============================================================================
