----------------------------- MODULE AuditLedger -----------------------------
(***************************************************************************)
(* The audit ledger of the SigniQ server: the hash-chained log in memory   *)
(* (audit/src/lib.rs, AuditLog), the JSONL file it is mirrored to, and the *)
(* request handlers that append to both (server/src/doc_api.rs,            *)
(* audit_append and audit_clear).  The log is changed under a mutex, the   *)
(* file is written after the mutex is released, so handlers interleave     *)
(* between the two.                                                        *)
(*                                                                         *)
(* A leaf hash is modelled as the sequence of the (seq, event) pairs that  *)
(* were hashed into it: a collision-free hash chain.  A file is modelled   *)
(* by what load_jsonl can read of it: `whole`, the entries of its          *)
(* terminated lines that hold exactly one entry, and `tail`, the entries   *)
(* written since the last newline.  A terminated line with two entries is  *)
(* not JSON and is skipped by load_jsonl, so it leaves no trace.           *)
(***************************************************************************)
EXTENDS Naturals, Sequences, FiniteSets, SequencesExt

CONSTANTS
  Threads,      \* the threads that serve requests
  Limits,       \* how many of each Occurrence a behaviour may contain
  CrashPoints   \* the handler positions at which the process may stop

Occurrence == {"event", "clear", "fault", "crash"}
Position == {"idle", "truncate", "line", "newline"}

\* What can come between the log and its file: an entry written onto a line that
\* has no newline yet; an entry written before an earlier one; an entry written
\* after a write that failed; a reset while another handler is at work.
Mishap == {"glued", "overtaken", "gap", "raced"}

ASSUME LedgerAssumption ==
  /\ Limits \in [Occurrence -> Nat]
  /\ CrashPoints \subseteq Position

VARIABLES
  up,       \* the process is running
  mem,      \* AuditLog.entries
  whole,    \* the readable terminated lines of the file
  tail,     \* what follows the last newline of the file
  pc,       \* where each handler is
  job,      \* the entry each handler has appended in memory and still persists
  chainOk,  \* what verify_chain said at boot; true again once the log is reset
  detached, \* the log did not start from the file: it was reset, or the file unreadable
  \* Auxiliary variables: what has happened, for the properties and the bounds.
  acked,    \* entries whose handler returned without a warning since the reset
  lagging,  \* a write has failed since the log was last loaded or the file emptied
  mishaps,  \* what has happened to the file since it was last emptied
  spent     \* how many of each Occurrence have happened (bounds the model)

auxVars == <<acked, lagging, mishaps, spent>>
vars == <<up, mem, whole, tail, pc, job, chainOk, detached, auxVars>>

Entry == [seq : Nat, event : Nat, leaf : Seq(Nat \X Nat)]
NoJob == [seq |-> 0, event |-> 0, leaf |-> <<>>]

-----------------------------------------------------------------------------
(* audit/src/lib.rs *)

\* leaf_hash_for: the entry's fields and the previous leaf, hashed together.
LeafHash(seq, event, prev) == Append(prev, <<seq, event>>)

PrevLeaf(log, i) == IF i = 1 THEN <<>> ELSE log[i - 1].leaf

\* Mutant: the leaf does not cover the previous one.
NextEntryUnchained(log, event) ==
  LET seq == Len(log) + 1
  IN  [seq |-> seq, event |-> event, leaf |-> LeafHash(seq, event, <<>>)]

\* Mutant: numbered by the index of the last entry, which underflows.
NextEntryOffByTwo(log, event) ==
  LET seq == Len(log) - 1
  IN  [seq |-> seq, event |-> event, leaf |-> LeafHash(seq, event, <<>>)]

\* AuditLog::append: the entry that goes after `log`.
NextEntry(log, event) ==
  LET seq == Len(log) + 1
  IN  [seq |-> seq, event |-> event, leaf |-> LeafHash(seq, event, PrevLeaf(log, seq))]

\* AuditLog::verify_chain.
VerifyChain(log) ==
  \A i \in 1..Len(log) :
    /\ log[i].seq = i
    /\ log[i].leaf = LeafHash(log[i].seq, log[i].event, PrevLeaf(log, i))

\* AuditLog::load_jsonl of the file as it is.
Loaded == IF Len(tail) = 1 THEN Append(whole, tail[1]) ELSE whole

-----------------------------------------------------------------------------
Can(k) == spent[k] < Limits[k]
Spend(k) == spent' = [spent EXCEPT ![k] = @ + 1]
Goto(t, position) == pc' = [pc EXCEPT ![t] = position]
Others(t) == Threads \ {t}
Alone(t) == \A u \in Others(t) : pc[u] = "idle"

Init ==
  /\ up = TRUE
  /\ mem = <<>> /\ whole = <<>> /\ tail = <<>>
  /\ pc = [t \in Threads |-> "idle"]
  /\ job = [t \in Threads |-> NoJob]
  /\ chainOk = TRUE /\ detached = FALSE
  /\ acked = {} /\ lagging = FALSE /\ mishaps = {}
  /\ spent = [k \in Occurrence |-> 0]

\* audit_append up to the unlock: the entry is in the log, not in the file.
AppendInMemory(t) ==
  /\ up /\ pc[t] = "idle" /\ Can("event")
  /\ LET e == NextEntry(mem, spent["event"] + 1)
     IN  mem' = Append(mem, e) /\ job' = [job EXCEPT ![t] = e]
  /\ Goto(t, "line") /\ Spend("event")
  /\ mishaps' = IF \E u \in Threads : pc[u] = "truncate"
                 THEN mishaps \cup {"raced"} ELSE mishaps
  /\ UNCHANGED <<up, whole, tail, chainOk, detached, acked, lagging>>

\* What befalls the file when the handler writes its line now.
LineMishaps(t) ==
  {k \in Mishap :
     \/ k = "glued" /\ tail # <<>>
     \/ k = "overtaken" /\ \E u \in Others(t) : pc[u] = "line" /\ job[u].seq < job[t].seq
     \/ k = "gap" /\ lagging}

\* append_persist, the first write_all: the JSON text, at the end of the file.
WriteLine(t) ==
  /\ up /\ pc[t] = "line"
  /\ tail' = Append(tail, job[t])
  /\ Goto(t, "newline")
  /\ mishaps' = mishaps \cup LineMishaps(t)
  /\ UNCHANGED <<up, mem, whole, job, chainOk, detached, acked, lagging, spent>>

\* append_persist, the second write_all: the newline; the handler returns Ok.
WriteNewline(t) ==
  /\ up /\ pc[t] = "newline"
  /\ whole' = Loaded /\ tail' = <<>>
  /\ acked' = acked \cup {job[t]}
  /\ Goto(t, "idle")
  /\ UNCHANGED <<up, mem, job, chainOk, detached, lagging, mishaps, spent>>

\* Mutant: a failed write takes the last entry off the log in memory.
PersistFailsAndPops(t) ==
  /\ up /\ pc[t] # "idle" /\ Can("fault")
  /\ mem' = Front(mem) /\ lagging' = TRUE
  /\ Goto(t, "idle") /\ Spend("fault")
  /\ UNCHANGED <<up, whole, tail, job, chainOk, detached, acked, mishaps>>

\* Mutant: the failure is swallowed.
PersistFailsSilently(t) ==
  /\ up /\ pc[t] # "idle" /\ Can("fault")
  /\ acked' = acked \cup {job[t]} /\ lagging' = TRUE
  /\ Goto(t, "idle") /\ Spend("fault")
  /\ UNCHANGED <<up, mem, whole, tail, job, chainOk, detached, mishaps>>

\* A write or the truncation fails: the handler returns with a warning.
PersistFails(t) ==
  /\ up /\ pc[t] # "idle" /\ Can("fault")
  /\ lagging' = TRUE
  /\ Goto(t, "idle") /\ Spend("fault")
  /\ UNCHANGED <<up, mem, whole, tail, job, chainOk, detached, acked, mishaps>>

\* audit_clear up to the unlock: a fresh log that holds the genesis entry.
ClearInMemory(t) ==
  /\ up /\ pc[t] = "idle" /\ Can("clear") /\ Can("event")
  /\ LET e == NextEntry(<<>>, spent["event"] + 1)
     IN  mem' = <<e>> /\ job' = [job EXCEPT ![t] = e]
  /\ chainOk' = TRUE /\ detached' = TRUE /\ acked' = {}
  /\ Goto(t, "truncate")
  /\ spent' = [spent EXCEPT !["clear"] = @ + 1, !["event"] = @ + 1]
  /\ mishaps' = IF Alone(t) THEN mishaps ELSE mishaps \cup {"raced"}
  /\ UNCHANGED <<up, whole, tail, lagging>>

\* Mutant: the file is not truncated before genesis is appended.
TruncateForgotten(t) ==
  /\ up /\ pc[t] = "truncate"
  /\ lagging' = FALSE /\ mishaps' = mishaps \cap {"raced"}
  /\ Goto(t, "line")
  /\ UNCHANGED <<up, mem, whole, tail, job, chainOk, detached, acked, spent>>

\* audit_clear, std::fs::write(path, b""); append_persist of genesis follows.
Truncate(t) ==
  /\ up /\ pc[t] = "truncate"
  /\ whole' = <<>> /\ tail' = <<>>
  /\ lagging' = FALSE /\ mishaps' = mishaps \cap {"raced"}
  /\ Goto(t, "line")
  /\ UNCHANGED <<up, mem, job, chainOk, detached, acked, spent>>

\* The process stops: memory and the handlers are gone, the file stays.
Crash ==
  /\ up /\ Can("crash")
  /\ \A t \in Threads : pc[t] \in CrashPoints
  /\ up' = FALSE /\ mem' = <<>>
  /\ pc' = [t \in Threads |-> "idle"]
  /\ job' = [t \in Threads |-> NoJob]
  /\ Spend("crash")
  /\ UNCHANGED <<whole, tail, chainOk, detached, acked, lagging, mishaps>>

\* Mutant: a last line without its newline is not read.
BootWholeLines ==
  /\ ~up
  /\ up' = TRUE /\ mem' = whole
  /\ chainOk' = VerifyChain(whole) /\ detached' = FALSE /\ lagging' = FALSE
  /\ UNCHANGED <<whole, tail, pc, job, acked, mishaps, spent>>

\* Mutant: the file is not reloaded.
BootAfresh ==
  /\ ~up
  /\ up' = TRUE /\ mem' = <<>>
  /\ chainOk' = TRUE /\ detached' = FALSE /\ lagging' = FALSE
  /\ UNCHANGED <<whole, tail, pc, job, acked, mishaps, spent>>

\* main(): reload the file, verify the chain, serve whatever the verdict is.
Boot ==
  /\ ~up
  /\ up' = TRUE /\ mem' = Loaded
  /\ chainOk' = VerifyChain(Loaded) /\ detached' = FALSE /\ lagging' = FALSE
  /\ UNCHANGED <<whole, tail, pc, job, acked, mishaps, spent>>

\* main(): load_jsonl cannot read the file; start with an empty ledger.
BootUnreadable ==
  /\ ~up /\ Can("fault")
  /\ up' = TRUE /\ mem' = <<>>
  /\ chainOk' = VerifyChain(<<>>) /\ detached' = TRUE /\ lagging' = TRUE
  /\ Spend("fault")
  /\ UNCHANGED <<whole, tail, pc, job, acked, mishaps>>

Next ==
  \/ \E t \in Threads :
       \/ AppendInMemory(t) \/ WriteLine(t) \/ WriteNewline(t)
       \/ PersistFails(t) \/ ClearInMemory(t) \/ Truncate(t)
  \/ Crash
  \/ Boot
  \/ BootUnreadable

Spec == Init /\ [][Next]_vars

-----------------------------------------------------------------------------
(* What the ledger promises. *)

\* Type correctness of every variable of the ledger, its file and its handlers.
TypeOK ==
  /\ up \in BOOLEAN /\ chainOk \in BOOLEAN /\ detached \in BOOLEAN
  /\ mem \in Seq(Entry) /\ whole \in Seq(Entry) /\ tail \in Seq(Entry)
  /\ pc \in [Threads -> Position]
  /\ job \in [Threads -> Entry]
  /\ acked \subseteq Entry /\ lagging \in BOOLEAN /\ mishaps \subseteq Mishap
  /\ spent \in [Occurrence -> Nat]

\* The comment on audit_append: whatever persistence does, "the in-memory chain
\* stays contiguous for this process run" - unless the run started from a file
\* whose chain was already broken.
ChainIntact == chainOk => VerifyChain(mem)

\* While the process runs and nobody resets the ledger, the log in memory only
\* grows at its end: an entry once returned keeps its place and its leaf hash.
AppendOnly ==
  [][up /\ up' /\ spent'["clear"] = spent["clear"] => IsPrefix(mem, mem')]_vars

\* However handlers interleave, fail or are cut off, in a run that started from
\* an intact file every entry a reload would find is the entry the log in
\* memory holds at that sequence number: the two never tell different stories.
DiskAgrees ==
  up /\ chainOk /\ ~detached =>
    \A i \in 1..Len(Loaded) :
      /\ Loaded[i].seq \in 1..Len(mem)
      /\ mem[Loaded[i].seq] = Loaded[i]

\* append_persist returns errors "so callers can surface persistence failures
\* instead of swallowing them": an entry whose handler got no error is read
\* back by load_jsonl, whatever failed, overtook or stopped meanwhile, except
\* after a glued line or a reset that met another handler.
AckedSurvives ==
  mishaps \cap {"glued", "raced"} = {} =>
    \A e \in acked : \E i \in 1..Len(Loaded) : Loaded[i] = e

\* main() reloads the file "so the Merkle chain survives process restarts":
\* whenever no handler is at work, a restart would find an intact chain.
ReloadIntact == (\A t \in Threads : pc[t] = "idle") => VerifyChain(Loaded)

\* A restart finds an intact chain whenever it comes, between any two steps of
\* any number of handlers and whatever failed, unless one of the four mishaps
\* has happened to the file since it was last emptied: nothing else breaks it.
OrderlyReload == mishaps = {} => VerifyChain(Loaded)

-----------------------------------------------------------------------------
\* The log an observer sees: while the process is down, what it will reload.
Abstract ==
  INSTANCE DurableLedger
    WITH log <- IF up THEN mem ELSE Loaded,
         durable <- Loaded,
         wiping <- \E t \in Threads : pc[t] = "truncate",
         tidy <- mishaps = {},
         Record <- Entry

\* The server implements the abstract ledger, with any number of handlers and
\* through failed writes and crashes at any point: the log only grows, except
\* over a reset or a restart; the file holds a growing beginning of it for as
\* long as no mishap has happened; and a restart resumes from what is durable.
IsDurableLedger == Abstract!DSpec
=============================================================================
