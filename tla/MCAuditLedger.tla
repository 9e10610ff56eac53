---------------------------- MODULE MCAuditLedger ----------------------------
(***************************************************************************)
(* Instances of the audit ledger and of its tree for TLC.                  *)
(***************************************************************************)
EXTENDS AuditTree, TLC

CONSTANTS t1, t2, t3

Symmetry == Permutations(Threads)

\* Every fault, handlers in parallel.
FullLimits == [event |-> 4, clear |-> 1, fault |-> 1, crash |-> 2]
\* One thread: several restarts, and logs of nine entries, so that odd and even
\* levels of the tree meet at every height.
SerialLimits == [event |-> 9, clear |-> 1, fault |-> 0, crash |-> 3]
\* Parallel handlers and nothing else.
ParallelLimits == [event |-> 3, clear |-> 0, fault |-> 0, crash |-> 0]
=============================================================================
