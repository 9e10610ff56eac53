---------------------------- MODULE DurableLedger ----------------------------
(***************************************************************************)
(* What the audit ledger is for (README "Audit ledger", the comment on the *)
(* reload in server/src/main.rs): one append-only log, of which a growing  *)
(* prefix is durable, and a restart that resumes from exactly that prefix. *)
(* A reset of the ledger starts a new log and then discards the durable    *)
(* copy of the old one.  The durable copy is answered for while it is tidy:*)
(* it may cease to be so at any step, and is tidy again once discarded.    *)
(***************************************************************************)
EXTENDS Naturals, Sequences, SequencesExt

CONSTANT Record           \* the entries a log may hold

VARIABLES log, durable, wiping, tidy

dvars == <<log, durable, wiping, tidy>>

DInit == log = <<>> /\ durable = <<>> /\ wiping = FALSE /\ tidy = TRUE

\* The durable copy may stop being tidy; only Discard makes it so again.
NoTidier == tidy' => tidy

\* One more record at the end.
AppendRecord ==
  /\ Len(log') = Len(log) + 1
  /\ IsPrefix(log, log') /\ Last(log') \in Record
  /\ NoTidier /\ UNCHANGED <<durable, wiping>>

\* More of the log becomes durable.
Harden ==
  /\ tidy /\ ~wiping
  /\ IsStrictPrefix(durable, durable') /\ IsPrefix(durable', log)
  /\ UNCHANGED <<log, wiping, tidy>>

\* A reset: the new log holds one record; the durable copy is still the old one.
Wipe ==
  /\ Len(log') = 1 /\ log'[1] \in Record
  /\ wiping' = TRUE
  /\ NoTidier /\ UNCHANGED durable

\* The durable copy of the old log goes.
Discard ==
  /\ wiping
  /\ durable' = <<>> /\ wiping' = FALSE
  /\ UNCHANGED log

\* It cannot be discarded, and stays.
Keep ==
  /\ wiping /\ wiping' = FALSE
  /\ UNCHANGED <<log, durable, tidy>>

\* The process restarts from what is durable, or empty when that is unreadable.
Restart ==
  /\ log' \in {durable, <<>>} /\ wiping' = FALSE
  /\ UNCHANGED <<durable, tidy>>

\* The durable copy is not tidy any more, and anything may become of it.
Disorder == ~tidy' /\ UNCHANGED log

DNext == AppendRecord \/ Harden \/ Wipe \/ Discard \/ Keep \/ Restart \/ Disorder

DSpec == DInit /\ [][DNext]_dvars

=============================================================================
