------------------------------ MODULE SixState ------------------------------
(***************************************************************************)
(* The six-state signatures of qds/src/six_state.rs: Alice prepares Pauli  *)
(* eigenstates and announces for each a set of two; Bob measures in random *)
(* bases and keeps the conclusive outcomes; Alice's string for a message   *)
(* is its signature, which Bob verifies against his own.                   *)
(*                                                                         *)
(* Random draws are choices.  Thresholds are percentages.  A session is    *)
(* known by its commitment.                                                *)
(***************************************************************************)
EXTENDS Naturals, Sequences, FiniteSets

CONSTANTS
  Pulses,        \* n_pulses
  C1, C2         \* the two thresholds, in percent

ASSUME SixStateAssumption == Pulses \in Nat /\ C1 \in Nat /\ C2 \in Nat /\ C1 <= C2

Basis == {"X", "Y", "Z"}
Eigenvalue == {"+", "-"}
State == [basis : Basis, sign : Eigenvalue]
Messages == {0, 1}

VARIABLES
  clicks,        \* of each message, its conclusive rounds: both strings, and
                 \* (history) whether the channel or the device struck the round
  sending        \* of each message, the pulses sent

sixVars == <<clicks, sending>>

SixInit == clicks = [m \in Messages |-> <<>>] /\ sending = [m \in Messages |-> 0]

Flip(sign) == IF sign = "+" THEN "-" ELSE "+"

\* random_set_containing: the member at 1 encodes 0, the member at 2 encodes 1.
SetsContaining(state) ==
  UNION { {<<state, other>>, <<other, state>>} : other \in { s \in State : s.basis # state.basis } }

\* projective_measure
Outcomes(state, basis) == { o \in State : o.basis = basis /\ (state.basis = basis => o = state) }

\* Mutant: the bit of the member itself.
ConclusiveBitOfMember(outcome, set) ==
  { i - 1 : i \in { k \in 1..2 : outcome.basis = set[k].basis /\ outcome.sign # set[k].sign } }

\* conclusive_bit: orthogonal to a member, the outcome means the other one.
ConclusiveBit(outcome, set) ==
  { 2 - i : i \in { k \in 1..2 : outcome.basis = set[k].basis /\ outcome.sign # set[k].sign } }

LogicBit(prepared, set) == IF set[1] = prepared THEN 0 ELSE 1

\* One pulse of run_message_rounds, the first message before the second: a
\* disturbed qubit is flipped in flight, a misaligned device flips Bob's bit.
\* The round counts as struck when just one of the two turned the bit over: a flip
\* in flight does so when Bob measured in the basis the qubit was prepared in.
Pulse(m, prepared, set, disturb, outcome, misaligned) ==
  LET wire == IF disturb THEN [prepared EXCEPT !.sign = Flip(@)] ELSE prepared
      inBasis == outcome.basis = prepared.basis
      round(bit) == [alice  |-> LogicBit(prepared, set),
                     bob    |-> IF misaligned THEN 1 - bit ELSE bit,
                     struck |-> (disturb /\ inBasis) # misaligned]
  IN  /\ sending[m] < Pulses /\ (m = 1 => sending[0] = Pulses)
      /\ outcome \in Outcomes(wire, outcome.basis)
      /\ sending' = [sending EXCEPT ![m] = @ + 1]
      /\ IF ConclusiveBit(outcome, set) = {} THEN UNCHANGED clicks
         ELSE \E bit \in ConclusiveBit(outcome, set) :
                clicks' = [clicks EXCEPT ![m] = Append(@, round(bit))]

SixNext ==
  \E m \in Messages, prepared, outcome \in State, disturb, misaligned \in BOOLEAN :
    \E set \in SetsContaining(prepared) : Pulse(m, prepared, set, disturb, outcome, misaligned)

SixSpec == SixInit /\ [][SixNext]_sixVars

-----------------------------------------------------------------------------
\* sign_six_state, and what VerifierMaterial::from_session keeps.
Signed6(m) == [message |-> m, bits |-> [i \in 1..Len(clicks[m]) |-> clicks[m][i].alice]]
Material == [m \in Messages |-> [i \in 1..Len(clicks[m]) |-> clicks[m][i].bob]]

\* full_mismatch
Compared(a, b) == IF Len(a) < Len(b) THEN Len(a) ELSE Len(b)
Mismatches(a, b) == Cardinality({ i \in 1..Compared(a, b) : a[i] # b[i] })

Authorized(material) == \E m \in Messages : material[m] # <<>>

\* verify_six_state, for a signature of the session in force or of another one.
VerifySixState(sig, material, sameSession) ==
  LET kept == material[sig.message]
      wrongs == Mismatches(sig.bits, kept)
      total == Compared(sig.bits, kept)
  IN  IF ~Authorized(material) \/ ~sameSession THEN "REJ"
      ELSE IF 100 * wrongs <= C1 * total THEN "1-ACC"
      ELSE IF 100 * wrongs <= C2 * total THEN "0-ACC"
      ELSE "REJ"

\* classify
Classify(sameSession, authorized, fresh, wrongs, total) ==
  IF ~sameSession THEN "forgery"
  ELSE IF ~authorized THEN "unauthorized_verification"
  ELSE IF ~fresh THEN "replay"
  ELSE IF 100 * wrongs <= C2 * total THEN "none"
  ELSE IF 100 * wrongs > 40 * total THEN "forgery" ELSE "channel_tampering"

\* "The damage shows up as verifier mismatches", and nothing else does: a genuine
\* signature mismatches exactly at the rounds that were struck.  So it is accepted
\* for good when none was and Bob kept anything; and the detection layer names an
\* attack exactly when the verifier rejects.
VerdictsFollowDamage ==
  \A m \in Messages :
    LET bits == Signed6(m).bits
        struck == Cardinality({ i \in 1..Len(clicks[m]) : clicks[m][i].struck })
    IN  /\ Mismatches(bits, Material[m]) = struck
        /\ struck = 0 /\ Authorized(Material) => VerifySixState(Signed6(m), Material, TRUE) = "1-ACC"
        /\ \A sameSession \in BOOLEAN :
             VerifySixState(Signed6(m), Material, sameSession) = "REJ" <=>
               Classify(sameSession, Authorized(Material), TRUE,
                        struck, Compared(bits, Material[m])) # "none"
=============================================================================
