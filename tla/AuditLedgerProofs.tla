-------------------------- MODULE AuditLedgerProofs --------------------------
(***************************************************************************)
(* Proofs about AuditLedger, for every set of threads, every bound and     *)
(* every set of crash points: type correctness, the chain in memory, the   *)
(* agreement of the file with it, what becomes of acknowledged entries and *)
(* of the reload, and that the ledger implements DurableLedger; and about  *)
(* AuditTree, for logs of any length: what its recursive functions         *)
(* compute, that every proof of an export verifies, and that a root is of  *)
(* one history only.                                                       *)
(***************************************************************************)
EXTENDS AuditTree, FiniteSetTheorems, SequenceTheorems, TLAPS

\* What load_jsonl returns is a sequence of entries.
LEMMA LoadedType ==
  ASSUME whole \in Seq(Entry), tail \in Seq(Entry)
  PROVE  Loaded \in Seq(Entry)
BY DEF Loaded

\* AuditLog::append makes an entry.
LEMMA NextEntryType ==
  ASSUME NEW log \in Seq(Entry), NEW event \in Nat
  PROVE  NextEntry(log, event) \in Entry
<1>1. Len(log) + 1 \in Nat
  OBVIOUS
<1>2. PrevLeaf(log, Len(log) + 1) \in Seq(Nat \X Nat)
  <2>1. CASE Len(log) = 0
    BY <2>1 DEF PrevLeaf
  <2>2. CASE Len(log) # 0
    <3>1. log[Len(log)] \in Entry
      BY <2>2
    <3>2. QED
      BY <2>2, <3>1 DEF PrevLeaf, Entry
  <2>3. QED
    BY <2>1, <2>2
<1>3. LeafHash(Len(log) + 1, event, PrevLeaf(log, Len(log) + 1)) \in Seq(Nat \X Nat)
  BY <1>1, <1>2 DEF LeafHash
<1>4. QED
  BY <1>1, <1>3 DEF NextEntry, Entry

\* Appending what AuditLog::append builds keeps verify_chain's verdict.
LEMMA AppendKeepsChain ==
  ASSUME NEW log \in Seq(Entry), NEW event \in Nat, VerifyChain(log)
  PROVE  VerifyChain(Append(log, NextEntry(log, event)))
<1> DEFINE e == NextEntry(log, event)
           longer == Append(log, e)
<1>1. e \in Entry
  BY NextEntryType
<1>2. /\ Len(longer) = Len(log) + 1
      /\ \A i \in 1..Len(log) : longer[i] = log[i]
      /\ longer[Len(log) + 1] = e
  BY <1>1
<1>3. SUFFICES ASSUME NEW i \in 1..Len(longer)
               PROVE  /\ longer[i].seq = i
                      /\ longer[i].leaf = LeafHash(longer[i].seq, longer[i].event, PrevLeaf(longer, i))
  BY DEF VerifyChain
<1>4. i \in 1..(Len(log) + 1)
  BY <1>2, <1>3
<1>5. PrevLeaf(longer, i) = PrevLeaf(log, i)
  <2>1. CASE i = 1
    BY <2>1 DEF PrevLeaf
  <2>2. CASE i # 1
    <3>1. i - 1 \in 1..Len(log)
      BY <1>4, <2>2
    <3>2. QED
      BY <1>2, <2>2, <3>1 DEF PrevLeaf
  <2>3. QED
    BY <2>1, <2>2
<1>6. CASE i \in 1..Len(log)
  BY <1>2, <1>5, <1>6 DEF VerifyChain
<1>7. CASE i = Len(log) + 1
  <2>1. /\ longer[i] = e
        /\ e.seq = i
        /\ e.event = event
        /\ e.leaf = LeafHash(i, event, PrevLeaf(log, i))
    BY <1>2, <1>7 DEF NextEntry
  <2>2. QED
    BY <1>5, <2>1
<1>8. QED
  BY <1>4, <1>6, <1>7

\* The empty log is a log and its chain holds.
LEMMA EmptyLog == <<>> \in Seq(Entry) /\ VerifyChain(<<>>)
BY DEF VerifyChain

\* An idle handler's job has the type of an entry.
LEMMA NoJobType == NoJob \in Entry
<1>1. <<>> \in Seq(Nat \X Nat)
  BY EmptySeq
<1>2. QED
  BY <1>1 DEF NoJob, Entry

\* verify_chain gives a verdict.
LEMMA VerdictType == ASSUME NEW log PROVE VerifyChain(log) \in BOOLEAN
BY Zenon DEF VerifyChain

-----------------------------------------------------------------------------
\* The server starts with variables of their types.
LEMMA TypeCorrectInit == Init => TypeOK
<1> SUFFICES ASSUME Init PROVE TypeOK
  OBVIOUS
<1>1. job \in [Threads -> Entry]
  BY NoJobType DEF Init
<1>2. mem \in Seq(Entry) /\ whole \in Seq(Entry) /\ tail \in Seq(Entry)
  BY EmptyLog DEF Init
<1>3. spent \in [Occurrence -> Nat] /\ pc \in [Threads -> Position]
  BY DEF Init, Position
<1>4. QED
  BY <1>1, <1>2, <1>3 DEF Init, TypeOK

\* No step of a handler, the process or its failures leaves the types.
LEMMA TypeCorrectStep == TypeOK /\ [Next]_vars => TypeOK'
<1> SUFFICES ASSUME TypeOK, [Next]_vars
             PROVE  TypeOK'
  OBVIOUS
<1> USE DEF TypeOK
<1>0. Loaded \in Seq(Entry)
  BY LoadedType
<1>1. ASSUME NEW t \in Threads, AppendInMemory(t)
      PROVE  TypeOK'
  <2>1. spent["event"] + 1 \in Nat
    BY DEF Occurrence
  <2>2. NextEntry(mem, spent["event"] + 1) \in Entry
    BY <2>1, NextEntryType
  <2>3. mem' \in Seq(Entry) /\ job' \in [Threads -> Entry]
    BY <1>1, <2>2 DEF AppendInMemory
  <2>4. spent' \in [Occurrence -> Nat]
    BY <1>1 DEF AppendInMemory, Spend, Occurrence
  <2>5. pc' \in [Threads -> Position]
    BY <1>1 DEF AppendInMemory, Goto, Position
  <2>6. mishaps' \subseteq Mishap
    BY <1>1 DEF AppendInMemory, Mishap
  <2>7. QED
    BY <1>1, <2>3, <2>4, <2>5, <2>6 DEF AppendInMemory
<1>2. ASSUME NEW t \in Threads, WriteLine(t)
      PROVE  TypeOK'
  <2>1. mishaps' \subseteq Mishap
    BY <1>2 DEF WriteLine, LineMishaps
  <2>2. QED
    BY <1>2, <2>1 DEF WriteLine, Goto, Position
<1>3. ASSUME NEW t \in Threads, WriteNewline(t)
      PROVE  TypeOK'
  BY <1>0, <1>3 DEF WriteNewline, Goto, Position
<1>4. ASSUME NEW t \in Threads, PersistFails(t)
      PROVE  TypeOK'
  BY <1>4 DEF PersistFails, Spend, Goto, Position, Occurrence
<1>5. ASSUME NEW t \in Threads, ClearInMemory(t)
      PROVE  TypeOK'
  <2>1. spent["event"] + 1 \in Nat
    BY DEF Occurrence
  <2> DEFINE e == NextEntry(<<>>, spent["event"] + 1)
  <2>2. e \in Entry
    BY <2>1, EmptyLog, NextEntryType
  <2>3. mem' \in Seq(Entry) /\ job' \in [Threads -> Entry]
    <3>1. mem' = <<e>> /\ job' = [job EXCEPT ![t] = e]
      BY <1>5 DEF ClearInMemory
    <3> HIDE DEF e
    <3>2. QED
      BY <2>2, <3>1
  <2>4. spent' \in [Occurrence -> Nat]
    <3>1. spent["clear"] + 1 \in Nat
      BY DEF Occurrence
    <3>2. spent' = [spent EXCEPT !["clear"] = spent["clear"] + 1,
                                 !["event"] = spent["event"] + 1]
      BY <1>5 DEF ClearInMemory
    <3>3. QED
      BY <2>1, <3>1, <3>2
  <2>5. pc' \in [Threads -> Position]
    BY <1>5 DEF ClearInMemory, Goto, Position
  <2>6. mishaps' \subseteq Mishap
    BY <1>5 DEF ClearInMemory, Mishap
  <2>7. QED
    BY <1>5, <2>3, <2>4, <2>5, <2>6 DEF ClearInMemory
<1>6. ASSUME NEW t \in Threads, Truncate(t)
      PROVE  TypeOK'
  <2>1. mishaps' \subseteq Mishap
    BY <1>6 DEF Truncate
  <2>2. whole' \in Seq(Entry) /\ tail' \in Seq(Entry)
    BY <1>6, EmptyLog DEF Truncate
  <2>3. pc' \in [Threads -> Position]
    BY <1>6 DEF Truncate, Goto, Position
  <2>4. QED
    BY <1>6, <2>1, <2>2, <2>3 DEF Truncate
<1>7. CASE Crash
  <2>1. job' \in [Threads -> Entry]
    BY <1>7, NoJobType DEF Crash
  <2>2. mem' \in Seq(Entry) /\ pc' \in [Threads -> Position] /\ spent' \in [Occurrence -> Nat]
    BY <1>7, EmptyLog DEF Crash, Spend, Position, Occurrence
  <2>3. QED
    BY <1>7, <2>1, <2>2 DEF Crash
<1>8. CASE Boot
  BY <1>0, <1>8, VerdictType DEF Boot
<1>9. CASE BootUnreadable
  BY <1>9, EmptyLog, VerdictType DEF BootUnreadable, Spend, Occurrence
<1>10. CASE UNCHANGED vars
  BY <1>10 DEF vars, auxVars
<1>11. QED
  BY <1>1, <1>2, <1>3, <1>4, <1>5, <1>6, <1>7, <1>8, <1>9, <1>10 DEF Next

\* Every variable keeps its type, whatever the handlers do.
THEOREM TypeCorrect == Spec => []TypeOK
BY TypeCorrectInit, TypeCorrectStep, PTL DEF Spec
-----------------------------------------------------------------------------
(***************************************************************************)
(* ChainIntact and DiskAgrees are not inductive by themselves: a handler   *)
(* still holds an entry it will write later, so that entry too must be the *)
(* one in memory, and a process that is down has no handler at work.       *)
(***************************************************************************)
InMemory(e) == e.seq \in 1..Len(mem) /\ mem[e.seq] = e

InFlightAgrees ==
  up /\ chainOk /\ ~detached => \A t \in Threads : pc[t] # "idle" => InMemory(job[t])

DownIsIdle == ~up => \A t \in Threads : pc[t] = "idle"

IInv == TypeOK /\ ChainIntact /\ DiskAgrees /\ InFlightAgrees /\ DownIsIdle

\* An entry in a log stays in it, at its place, when another one is appended.
LEMMA AppendKeepsEntries ==
  ASSUME NEW log \in Seq(Entry), NEW e \in Entry, NEW x \in Entry,
         x.seq \in 1..Len(log), log[x.seq] = x
  PROVE  x.seq \in 1..Len(Append(log, e)) /\ Append(log, e)[x.seq] = x
OBVIOUS

\* The entry AuditLog::append builds is found at its sequence number.
LEMMA AppendedInMemory ==
  ASSUME NEW log \in Seq(Entry), NEW event \in Nat
  PROVE  LET e == NextEntry(log, event)
         IN  e.seq \in 1..Len(Append(log, e)) /\ Append(log, e)[e.seq] = e
<1> DEFINE e == NextEntry(log, event)
<1>1. e \in Entry
  BY NextEntryType
<1>2. e.seq = Len(log) + 1
  BY DEF NextEntry
<1> HIDE DEF e
<1>3. e.seq \in 1..Len(Append(log, e)) /\ Append(log, e)[e.seq] = e
  BY <1>1, <1>2
<1>4. QED
  BY <1>3 DEF e

\* The server starts with an empty log, an empty file and no handler at work.
LEMMA InvInit == Init => IInv
<1> SUFFICES ASSUME Init PROVE IInv
  OBVIOUS
<1>1. TypeOK
  BY TypeCorrectInit
<1>2. ChainIntact
  BY EmptyLog DEF Init, ChainIntact
<1>3. Len(Loaded) = 0
  BY DEF Init, Loaded
<1>4. QED
  BY <1>1, <1>2, <1>3 DEF Init, IInv, DiskAgrees, InFlightAgrees, DownIsIdle

\* No step breaks the inductive invariant.
LEMMA InvStep == IInv /\ [Next]_vars => IInv'
<1> SUFFICES ASSUME IInv, [Next]_vars
             PROVE  IInv'
  OBVIOUS
<1> USE DEF IInv
<1>0. TypeOK'
  BY TypeCorrectStep
<1>1. Loaded \in Seq(Entry)
  BY LoadedType DEF TypeOK
<1>2. ASSUME NEW t \in Threads, AppendInMemory(t)
      PROVE  IInv'
  <2> DEFINE e == NextEntry(mem, spent["event"] + 1)
  <2>1. spent["event"] + 1 \in Nat /\ mem \in Seq(Entry)
    BY DEF TypeOK, Occurrence
  <2>2. e \in Entry
    BY <2>1, NextEntryType
  <2>3. mem' = Append(mem, e) /\ job' = [job EXCEPT ![t] = e]
    BY <1>2 DEF AppendInMemory
  <2>4. Loaded' = Loaded
    BY <1>2 DEF AppendInMemory, Loaded
  <2>5. ChainIntact'
    BY <1>2, <2>1, <2>3, AppendKeepsChain DEF AppendInMemory, ChainIntact
  <2>6. e.seq \in 1..Len(mem') /\ mem'[e.seq] = e
    BY <2>1, <2>3, AppendedInMemory
  <2> HIDE DEF e
  <2>7. ASSUME NEW x \in Entry, InMemory(x)
        PROVE  InMemory(x)'
    BY <2>1, <2>2, <2>3, <2>7, AppendKeepsEntries DEF InMemory
  <2>8. DiskAgrees'
    <3> SUFFICES ASSUME up, chainOk, ~detached, NEW i \in 1..Len(Loaded)
                 PROVE  InMemory(Loaded[i])'
      BY <1>2, <2>4 DEF AppendInMemory, DiskAgrees, InMemory
    <3>1. Loaded[i] \in Entry /\ InMemory(Loaded[i])
      BY <1>1 DEF DiskAgrees, InMemory
    <3>2. InMemory(Loaded[i])'
      BY <2>1, <2>2, <2>3, <2>4, <3>1, AppendKeepsEntries DEF InMemory
    <3>3. QED
      BY <3>2
  <2>9. InFlightAgrees'
    <3> SUFFICES ASSUME up, chainOk, ~detached, NEW u \in Threads, pc'[u] # "idle"
                 PROVE  InMemory(job[u])'
      BY <1>2 DEF AppendInMemory, InFlightAgrees
    <3>1. CASE u = t
      <4>1. job'[u] = e
        BY <2>3, <3>1 DEF TypeOK
      <4>2. QED
        BY <2>6, <4>1 DEF InMemory
    <3>2. CASE u # t
      <4>1. job'[u] = job[u] /\ job[u] \in Entry /\ pc[u] # "idle"
        BY <1>2, <2>3, <3>2 DEF AppendInMemory, Goto, TypeOK
      <4>2. InMemory(job[u])
        BY <4>1 DEF InFlightAgrees
      <4>3. QED
        BY <2>1, <2>2, <2>3, <4>1, <4>2, AppendKeepsEntries DEF InMemory
    <3>3. QED
      BY <3>1, <3>2
  <2>10. QED
    BY <1>0, <1>2, <2>5, <2>8, <2>9 DEF AppendInMemory, DownIsIdle
<1>3. ASSUME NEW t \in Threads, WriteLine(t)
      PROVE  IInv'
  <2>1. /\ mem' = mem /\ job' = job /\ UNCHANGED <<up, chainOk, detached>>
        /\ up /\ pc[t] = "line"
        /\ tail' = Append(tail, job[t]) /\ whole' = whole
        /\ pc' = [pc EXCEPT ![t] = "newline"]
    BY <1>3 DEF WriteLine, Goto
  <2>2. job[t] \in Entry /\ tail \in Seq(Entry) /\ whole \in Seq(Entry)
    BY DEF TypeOK
  <2>3. DiskAgrees'
    <3> SUFFICES ASSUME up, chainOk, ~detached, NEW i \in 1..Len(Loaded')
                 PROVE  InMemory(Loaded'[i])
      BY <2>1 DEF DiskAgrees, InMemory
    <3>1. InMemory(job[t])
      BY <2>1 DEF InFlightAgrees
    <3>2. \A j \in 1..Len(whole) : InMemory(whole[j])
      BY <2>2 DEF DiskAgrees, Loaded, InMemory
    <3>3. CASE Len(tail) = 0
      <4>1. Loaded' = Append(whole, job[t])
        BY <2>1, <2>2, <3>3 DEF Loaded
      <4>2. QED
        BY <2>2, <3>1, <3>2, <4>1
    <3>4. CASE Len(tail) # 0
      <4>1. Loaded' = whole
        BY <2>1, <2>2, <3>4 DEF Loaded
      <4>2. QED
        BY <3>2, <4>1
    <3>5. QED
      BY <3>3, <3>4
  <2>4. InFlightAgrees'
    BY <2>1 DEF InFlightAgrees, InMemory, TypeOK
  <2>5. QED
    BY <1>0, <2>1, <2>3, <2>4 DEF ChainIntact, DownIsIdle
<1>4. ASSUME NEW t \in Threads, WriteNewline(t)
      PROVE  IInv'
  <2>1. /\ UNCHANGED <<mem, job, up, chainOk, detached>>
        /\ up /\ whole' = Loaded /\ tail' = <<>>
        /\ pc' = [pc EXCEPT ![t] = "idle"]
    BY <1>4 DEF WriteNewline, Goto
  <2>2. Loaded' = Loaded
    BY <2>1 DEF Loaded
  <2>3. DiskAgrees'
    BY <2>1, <2>2 DEF DiskAgrees
  <2>4. InFlightAgrees'
    BY <2>1 DEF InFlightAgrees, InMemory, TypeOK
  <2>5. QED
    BY <1>0, <2>1, <2>3, <2>4 DEF ChainIntact, DownIsIdle
<1>5. ASSUME NEW t \in Threads, PersistFails(t)
      PROVE  IInv'
  <2>1. /\ UNCHANGED <<mem, job, up, chainOk, detached, whole, tail>>
        /\ up /\ pc' = [pc EXCEPT ![t] = "idle"]
    BY <1>5 DEF PersistFails, Goto
  <2>2. QED
    BY <1>0, <2>1 DEF ChainIntact, DiskAgrees, Loaded, InFlightAgrees, InMemory, DownIsIdle, TypeOK
<1>6. ASSUME NEW t \in Threads, ClearInMemory(t)
      PROVE  IInv'
  <2> DEFINE e == NextEntry(<<>>, spent["event"] + 1)
  <2>1. spent["event"] + 1 \in Nat
    BY DEF TypeOK, Occurrence
  <2>2. mem' = <<e>> /\ up /\ up' /\ detached'
    BY <1>6 DEF ClearInMemory
  <2>3. VerifyChain(Append(<<>>, e))
    BY <2>1, EmptyLog, AppendKeepsChain
  <2>4. ChainIntact'
    BY <2>2, <2>3 DEF ChainIntact
  <2>5. QED
    BY <1>0, <2>2, <2>4 DEF DiskAgrees, InFlightAgrees, DownIsIdle
<1>7. ASSUME NEW t \in Threads, Truncate(t)
      PROVE  IInv'
  <2>1. /\ UNCHANGED <<mem, job, up, chainOk, detached>>
        /\ up /\ pc[t] # "idle" /\ pc' = [pc EXCEPT ![t] = "line"]
        /\ whole' = <<>> /\ tail' = <<>>
    BY <1>7 DEF Truncate, Goto
  <2>2. Len(Loaded') = 0
    BY <2>1 DEF Loaded
  <2>3. DiskAgrees'
    BY <2>2 DEF DiskAgrees
  <2>4. InFlightAgrees'
    BY <2>1 DEF InFlightAgrees, InMemory, TypeOK
  <2>5. QED
    BY <1>0, <2>1, <2>3, <2>4 DEF ChainIntact, DownIsIdle
<1>8. CASE Crash
  <2>1. ~up' /\ mem' = <<>> /\ pc' = [t \in Threads |-> "idle"]
    BY <1>8 DEF Crash
  <2>2. QED
    BY <1>0, <2>1, EmptyLog DEF ChainIntact, DiskAgrees, InFlightAgrees, DownIsIdle
<1>9. CASE Boot
  <2>1. /\ ~up /\ up' /\ mem' = Loaded /\ chainOk' = VerifyChain(Loaded)
        /\ Loaded' = Loaded /\ pc' = pc
    BY <1>9 DEF Boot, Loaded
  <2>2. DiskAgrees'
    <3> SUFFICES ASSUME chainOk', NEW i \in 1..Len(Loaded)
                 PROVE  Loaded[i].seq \in 1..Len(Loaded) /\ Loaded[Loaded[i].seq] = Loaded[i]
      BY <2>1 DEF DiskAgrees
    <3>1. Loaded[i].seq = i
      BY <2>1 DEF VerifyChain
    <3>2. QED
      BY <3>1
  <2>3. InFlightAgrees'
    BY <2>1 DEF InFlightAgrees, DownIsIdle
  <2>4. QED
    BY <1>0, <2>1, <2>2, <2>3 DEF ChainIntact, DownIsIdle
<1>10. CASE BootUnreadable
  <2>1. ~up /\ up' /\ mem' = <<>> /\ detached' /\ pc' = pc
    BY <1>10 DEF BootUnreadable
  <2>2. QED
    BY <1>0, <2>1, EmptyLog DEF ChainIntact, DiskAgrees, InFlightAgrees, DownIsIdle
<1>11. CASE UNCHANGED vars
  BY <1>0, <1>11 DEF vars, ChainIntact, DiskAgrees, Loaded, InFlightAgrees, InMemory, DownIsIdle
<1>12. QED
  BY <1>2, <1>3, <1>4, <1>5, <1>6, <1>7, <1>8, <1>9, <1>10, <1>11 DEF Next

\* The chain in memory verifies in every run that started from an intact file
\* or was reset: no interleaving of handlers breaks it.
THEOREM ChainAlwaysIntact == Spec => []ChainIntact
<1>1. IInv => ChainIntact
  BY DEF IInv
<1>2. QED
  BY InvInit, InvStep, <1>1, PTL DEF Spec

\* In a run that started from an intact file, what a reload would find is what
\* the memory holds, whatever the handlers, failures and crashes did.
THEOREM DiskAlwaysAgrees == Spec => []DiskAgrees
<1>1. IInv => DiskAgrees
  BY DEF IInv
<1>2. QED
  BY InvInit, InvStep, <1>1, PTL DEF Spec

\* A step that neither stops the process nor resets the ledger leaves every
\* entry of the log in memory where it is.
LEMMA StepAppendsOnly ==
  TypeOK /\ [Next]_vars =>
    [up /\ up' /\ spent'["clear"] = spent["clear"] => IsPrefix(mem, mem')]_vars
<1> SUFFICES ASSUME TypeOK, Next, up, up', spent'["clear"] = spent["clear"]
             PROVE  IsPrefix(mem, mem')
  OBVIOUS
<1>1. mem \in Seq(Entry)
  BY DEF TypeOK
<1>2. ASSUME NEW t \in Threads, AppendInMemory(t)
      PROVE  IsPrefix(mem, mem')
  <2>1. spent["event"] + 1 \in Nat
    BY DEF TypeOK, Occurrence
  <2> DEFINE e == NextEntry(mem, spent["event"] + 1)
  <2>2. e \in Entry /\ mem' = Append(mem, e)
    BY <1>1, <1>2, <2>1, NextEntryType DEF AppendInMemory
  <2> HIDE DEF e
  <2>3. QED
    BY <1>1, <2>2 DEF IsPrefix
<1>3. ASSUME NEW t \in Threads, ClearInMemory(t)
      PROVE  FALSE
  <2>1. spent'["clear"] = spent["clear"] + 1 /\ spent["clear"] \in Nat
    BY <1>3 DEF ClearInMemory, TypeOK, Occurrence
  <2>2. QED
    BY <2>1
<1>4. CASE UNCHANGED mem
  BY <1>1, <1>4 DEF IsPrefix
<1>5. QED
  BY <1>2, <1>3, <1>4
  DEF Next, WriteLine, WriteNewline, PersistFails, Truncate, Crash, Boot, BootUnreadable

\* The ledger in memory is append-only.
THEOREM LedgerIsAppendOnly == Spec => AppendOnly
BY TypeCorrect, StepAppendsOnly, PTL DEF Spec, AppendOnly
-----------------------------------------------------------------------------
(***************************************************************************)
(* The log and its file, for any number of handlers that may fail and      *)
(* crash anywhere.  A reset that met no other handler is alone until the   *)
(* file is empty; without glued lines the handler between a line and its   *)
(* newline is the only one, and its entry all that follows the last        *)
(* newline; and while no mishap has happened the file is a beginning of    *)
(* the log, unless a write has failed, and the handlers at their line hold *)
(* exactly the rest.                                                       *)
(***************************************************************************)
Begins(s, log) == Len(s) <= Len(log) /\ \A i \in 1..Len(s) : s[i] = log[i]

Truncating == \E t \in Threads : pc[t] = "truncate"

ResetAlone ==
  "raced" \notin mishaps =>
    \A t \in Threads : pc[t] = "truncate" =>
      Alone(t) /\ mem = <<job[t]>> /\ VerifyChain(mem) /\ acked = {}

LinesApart ==
  "raced" \notin mishaps /\ "glued" \notin mishaps =>
    /\ tail = <<>> \/ Len(tail) = 1
    /\ \A t \in Threads : pc[t] = "newline" =>
         tail = <<job[t]>> /\ \A u \in Others(t) : pc[u] # "newline"

AckedRead ==
  "raced" \notin mishaps /\ "glued" \notin mishaps =>
    \A e \in acked : \E i \in 1..Len(Loaded) : Loaded[i] = e

ChainsHold == mishaps = {} => VerifyChain(Loaded) /\ (up => VerifyChain(mem))

\* Every entry the file lacks is held by a handler that has yet to write its line.
Pending ==
  /\ Begins(Loaded, mem)
  /\ \A i \in Len(Loaded) + 1..Len(mem) : \E t \in Threads : pc[t] = "line" /\ job[t] = mem[i]
  /\ \A t \in Threads : pc[t] = "line" =>
       job[t].seq \in Len(Loaded) + 1..Len(mem) /\ mem[job[t].seq] = job[t]
  /\ \A t \in Threads, u \in Threads :
       t # u /\ pc[t] = "line" /\ pc[u] = "line" => job[t].seq # job[u].seq

FilePending == mishaps = {} /\ up /\ ~lagging /\ ~Truncating => Pending

FileInv == TypeOK /\ DownIsIdle /\ ResetAlone /\ LinesApart /\ AckedRead /\ ChainsHold /\ FilePending

\* A beginning of a log whose chain holds has a chain that holds.
LEMMA BeginningHolds ==
  ASSUME NEW s \in Seq(Entry), NEW log \in Seq(Entry), Begins(s, log), VerifyChain(log)
  PROVE  VerifyChain(s)
<1> SUFFICES ASSUME NEW i \in 1..Len(s)
             PROVE  /\ s[i].seq = i
                    /\ s[i].leaf = LeafHash(s[i].seq, s[i].event, PrevLeaf(s, i))
  BY DEF VerifyChain
<1>1. i \in 1..Len(log) /\ s[i] = log[i]
  BY DEF Begins
<1>2. PrevLeaf(s, i) = PrevLeaf(log, i)
  <2>1. CASE i = 1
    BY <2>1 DEF PrevLeaf
  <2>2. CASE i # 1
    <3>1. i - 1 \in 1..Len(s)
      BY <2>2
    <3>2. s[i - 1] = log[i - 1]
      BY <3>1 DEF Begins
    <3>3. QED
      BY <2>2, <3>2 DEF PrevLeaf
  <2>3. QED
    BY <2>1, <2>2
<1>3. QED
  BY <1>1, <1>2 DEF VerifyChain

\* The entries of a log are still in a longer one.
LEMMA StillFound ==
  ASSUME NEW log \in Seq(Entry), NEW e \in Entry, NEW x, \E i \in 1..Len(log) : log[i] = x
  PROVE  \E i \in 1..Len(Append(log, e)) : Append(log, e)[i] = x
OBVIOUS

\* The server starts with nothing pending.
LEMMA FileInit == Init => FileInv
<1> SUFFICES ASSUME Init PROVE FileInv
  OBVIOUS
<1>1. TypeOK
  BY TypeCorrectInit
<1>2. Loaded = <<>> /\ mem = <<>> /\ acked = {} /\ tail = <<>>
  BY DEF Init, Loaded
<1>3. \A t \in Threads : pc[t] = "idle"
  BY DEF Init
<1>4. Pending
  BY <1>2, <1>3 DEF Pending, Begins
<1>5. QED
  BY <1>1, <1>2, <1>3, <1>4, EmptyLog
  DEF FileInv, DownIsIdle, ResetAlone, LinesApart, AckedRead, ChainsHold, FilePending

\* A new entry in memory is pending at the handler that appended it.
LEMMA FileAppend ==
  ASSUME FileInv, TypeOK', NEW t \in Threads, AppendInMemory(t)
  PROVE  FileInv'
<1> DEFINE e == NextEntry(mem, spent["event"] + 1)
<1>1. spent["event"] + 1 \in Nat /\ mem \in Seq(Entry) /\ Loaded \in Seq(Entry)
  BY LoadedType DEF FileInv, TypeOK, Occurrence
<1>2. e \in Entry /\ e.seq = Len(mem) + 1
  BY <1>1, NextEntryType DEF NextEntry
<1>3. /\ mem' = Append(mem, e) /\ job' = [job EXCEPT ![t] = e] /\ pc' = [pc EXCEPT ![t] = "line"]
      /\ up /\ up' /\ pc[t] = "idle" /\ Loaded' = Loaded
      /\ UNCHANGED <<whole, tail, acked, lagging>>
  BY <1>1 DEF AppendInMemory, Goto, Loaded
<1>4. mishaps' = IF Truncating THEN mishaps \cup {"raced"} ELSE mishaps
  BY DEF AppendInMemory, Truncating
<1>5. mishaps = {} => VerifyChain(mem')
  BY <1>1, <1>3, AppendKeepsChain DEF FileInv, ChainsHold
<1> HIDE DEF e
<1>6. /\ job'[t] = e /\ pc'[t] = "line"
      /\ \A u \in Others(t) : job'[u] = job[u] /\ pc'[u] = pc[u]
  BY <1>3 DEF FileInv, TypeOK, Others
<1>7. Truncating' <=> Truncating
  BY <1>3, <1>6 DEF Truncating, Others
<1>8. ResetAlone'
  <2> SUFFICES ASSUME "raced" \notin mishaps', NEW u \in Threads, pc'[u] = "truncate"
               PROVE  FALSE
    BY DEF ResetAlone
  <2>1. QED
    BY <1>4, <1>7 DEF Truncating
<1>9. LinesApart'
  <2> SUFFICES ASSUME "raced" \notin mishaps', "glued" \notin mishaps'
               PROVE  /\ tail = <<>> \/ Len(tail) = 1
                      /\ \A u \in Threads : pc'[u] = "newline" =>
                           tail = <<job'[u]>> /\ \A v \in Others(u) : pc'[v] # "newline"
    BY <1>3 DEF LinesApart
  <2>1. "raced" \notin mishaps /\ "glued" \notin mishaps
    BY <1>4
  <2>2. QED
    BY <1>6, <2>1 DEF FileInv, LinesApart, Others
<1>10. AckedRead' /\ ChainsHold' /\ DownIsIdle'
  BY <1>3, <1>4, <1>5 DEF FileInv, AckedRead, ChainsHold, DownIsIdle
<1>11. FilePending'
  <2> SUFFICES ASSUME mishaps = {}, ~lagging, ~Truncating
               PROVE  Pending'
    BY <1>3, <1>4, <1>7 DEF FilePending
  <2>1. Pending
    BY <1>3 DEF FileInv, FilePending
  <2>2. /\ Len(mem') = Len(mem) + 1 /\ mem'[Len(mem) + 1] = e
        /\ \A i \in 1..Len(mem) : mem'[i] = mem[i]
    BY <1>1, <1>2, <1>3
  <2>3. Len(Loaded) \in Nat /\ Len(mem) \in Nat /\ Len(Loaded) <= Len(mem)
    BY <1>1, <2>1 DEF Pending, Begins
  <2>4. Begins(Loaded', mem')
    BY <1>3, <2>1, <2>2, <2>3 DEF Pending, Begins
  <2>5. ASSUME NEW i \in Len(Loaded) + 1..Len(mem')
        PROVE  \E u \in Threads : pc'[u] = "line" /\ job'[u] = mem'[i]
    <3>1. CASE i = Len(mem) + 1
      BY <1>6, <2>2, <3>1
    <3>2. CASE i # Len(mem) + 1
      <4>1. i \in Len(Loaded) + 1..Len(mem) /\ mem'[i] = mem[i]
        BY <2>2, <2>3, <3>2
      <4>2. PICK u \in Threads : pc[u] = "line" /\ job[u] = mem[i]
        BY <2>1, <4>1 DEF Pending
      <4>3. u \in Others(t)
        BY <1>3, <4>2 DEF Others
      <4>4. QED
        BY <1>6, <4>1, <4>2, <4>3
    <3>3. QED
      BY <3>1, <3>2
  <2>6. ASSUME NEW u \in Threads, pc'[u] = "line"
        PROVE  job'[u].seq \in Len(Loaded) + 1..Len(mem') /\ mem'[job'[u].seq] = job'[u]
    <3>1. CASE u = t
      BY <1>2, <1>6, <2>2, <2>3, <3>1
    <3>2. CASE u # t
      <4>1. job'[u] = job[u] /\ pc[u] = "line"
        BY <1>6, <2>6, <3>2 DEF Others
      <4>2. job[u].seq \in Len(Loaded) + 1..Len(mem) /\ mem[job[u].seq] = job[u]
        BY <2>1, <4>1 DEF Pending
      <4>3. QED
        BY <2>2, <2>3, <4>1, <4>2
    <3>3. QED
      BY <3>1, <3>2
  <2>7. ASSUME NEW u \in Threads, pc[u] = "line", u # t
        PROVE  job'[u] = job[u] /\ job[u].seq # job'[t].seq
    <3>1. job'[u] = job[u] /\ job[u].seq \in Len(Loaded) + 1..Len(mem)
      BY <1>6, <2>1, <2>7 DEF Pending, Others
    <3>2. QED
      BY <1>2, <1>6, <2>3, <3>1
  <2>8. ASSUME NEW u \in Threads, NEW v \in Threads, u # v, pc'[u] = "line", pc'[v] = "line"
        PROVE  job'[u].seq # job'[v].seq
    <3>1. CASE u = t
      BY <1>6, <2>7, <2>8, <3>1 DEF Others
    <3>2. CASE v = t
      BY <1>6, <2>7, <2>8, <3>2 DEF Others
    <3>3. CASE u # t /\ v # t
      BY <1>6, <2>1, <2>8, <3>3 DEF Others, Pending
    <3>4. QED
      BY <3>1, <3>2, <3>3
  <2>9. QED
    BY <1>3, <2>4, <2>5, <2>6, <2>8 DEF Pending
<1>12. QED
  BY <1>8, <1>9, <1>10, <1>11 DEF FileInv

\* A line that meets no mishap is of the first entry the file lacks.
LEMMA LineIsNext ==
  ASSUME FileInv, TypeOK', NEW t \in Threads, WriteLine(t), mishaps' = {}
  PROVE  /\ mishaps = {} /\ ~Truncating /\ Pending /\ VerifyChain(mem)
         /\ mem \in Seq(Entry) /\ Loaded \in Seq(Entry) /\ job[t] \in Entry
         /\ job[t].seq = Len(Loaded) + 1 /\ Loaded' = Append(Loaded, job[t])
         /\ Begins(Loaded', mem)
<1>1. /\ up /\ pc[t] = "line" /\ tail' = Append(tail, job[t]) /\ whole' = whole
      /\ mishaps' = mishaps \cup LineMishaps(t)
  BY DEF WriteLine, Goto
<1>2. /\ mishaps = {} /\ tail = <<>> /\ ~lagging
      /\ \A u \in Others(t) : pc[u] = "line" => ~(job[u].seq < job[t].seq)
  BY <1>1 DEF LineMishaps, Mishap
<1>3. mem \in Seq(Entry) /\ whole \in Seq(Entry) /\ job[t] \in Entry
  BY DEF FileInv, TypeOK
<1>4. Loaded = whole /\ Loaded' = Append(whole, job[t])
  BY <1>1, <1>2, <1>3 DEF Loaded
<1>5. ~Truncating
  <2> SUFFICES ASSUME NEW u \in Threads, pc[u] = "truncate" PROVE FALSE
    BY DEF Truncating
  <2>1. Alone(u)
    BY <1>2 DEF FileInv, ResetAlone
  <2>2. QED
    BY <1>1, <2>1 DEF Alone, Others
<1>6. Pending /\ VerifyChain(mem)
  BY <1>1, <1>2, <1>5 DEF FileInv, FilePending, ChainsHold
<1>7. job[t].seq \in Len(Loaded) + 1..Len(mem) /\ mem[job[t].seq] = job[t]
  BY <1>1, <1>6 DEF Pending
<1>8. Len(Loaded) \in Nat /\ Len(mem) \in Nat /\ Len(Loaded) + 1 \in Len(Loaded) + 1..Len(mem)
  BY <1>3, <1>4, <1>7
<1>9. job[t].seq = Len(Loaded) + 1
  <2> SUFFICES ASSUME job[t].seq # Len(Loaded) + 1 PROVE FALSE
    OBVIOUS
  <2>1. PICK u \in Threads : pc[u] = "line" /\ job[u] = mem[Len(Loaded) + 1]
    BY <1>6, <1>8 DEF Pending
  <2>2. job[u].seq = Len(Loaded) + 1
    BY <1>6, <1>8, <2>1 DEF VerifyChain
  <2>3. u \in Others(t) /\ job[u].seq < job[t].seq
    BY <1>7, <1>8, <2>2 DEF Others
  <2>4. QED
    BY <1>2, <2>1, <2>3
<1>10. Begins(Append(Loaded, job[t]), mem)
  <2>1. Len(Append(Loaded, job[t])) = Len(Loaded) + 1
    BY <1>3, <1>4
  <2>2. ASSUME NEW i \in 1..Len(Loaded) + 1
        PROVE  Append(Loaded, job[t])[i] = mem[i]
    <3>1. CASE i = Len(Loaded) + 1
      BY <1>3, <1>4, <1>7, <1>9, <3>1
    <3>2. CASE i # Len(Loaded) + 1
      BY <1>3, <1>4, <1>6, <1>8, <3>2 DEF Pending, Begins
    <3>3. QED
      BY <3>1, <3>2
  <2>3. QED
    BY <1>8, <2>1, <2>2 DEF Begins
<1>11. QED
  BY <1>2, <1>3, <1>4, <1>5, <1>6, <1>9, <1>10

LEMMA FileLine ==
  ASSUME FileInv, TypeOK', NEW t \in Threads, WriteLine(t)
  PROVE  FileInv'
<1>1. /\ up /\ up' /\ mem' = mem /\ job' = job /\ pc[t] = "line" /\ pc' = [pc EXCEPT ![t] = "newline"]
      /\ tail' = Append(tail, job[t]) /\ whole' = whole
      /\ mishaps' = mishaps \cup LineMishaps(t) /\ UNCHANGED <<acked, lagging>>
  BY DEF WriteLine, Goto
<1>2. /\ whole \in Seq(Entry) /\ tail \in Seq(Entry) /\ job[t] \in Entry
      /\ "raced" \notin LineMishaps(t)
      /\ "glued" \notin mishaps' => "glued" \notin mishaps /\ tail = <<>>
      /\ "raced" \in mishaps' <=> "raced" \in mishaps
  BY <1>1 DEF FileInv, TypeOK, LineMishaps, Mishap
<1>3. pc'[t] = "newline" /\ \A u \in Others(t) : pc'[u] = pc[u]
  BY <1>1 DEF FileInv, TypeOK, Others
<1>4. Truncating' <=> Truncating
  BY <1>1, <1>3 DEF Truncating, Others
<1>5. ResetAlone'
  <2> SUFFICES ASSUME "raced" \notin mishaps', NEW u \in Threads, pc'[u] = "truncate"
               PROVE  FALSE
    BY DEF ResetAlone
  <2>1. pc[u] = "truncate" /\ u # t
    BY <1>3 DEF Others
  <2>2. Alone(u)
    BY <1>2, <2>1 DEF FileInv, ResetAlone
  <2>3. QED
    BY <1>1, <2>1, <2>2 DEF Alone, Others
<1>6. ASSUME "raced" \notin mishaps', "glued" \notin mishaps'
      PROVE  tail = <<>> /\ tail' = <<job[t]>> /\ Loaded = whole /\ Loaded' = Append(whole, job[t])
             /\ \A u \in Threads : pc[u] # "newline"
  <2>1. tail = <<>> /\ "raced" \notin mishaps /\ "glued" \notin mishaps
    BY <1>2, <1>6
  <2>2. tail' = <<job[t]>> /\ Loaded = whole /\ Loaded' = Append(whole, job[t])
    BY <1>1, <1>2, <2>1 DEF Loaded
  <2>3. \A u \in Threads : pc[u] # "newline"
    BY <2>1 DEF FileInv, LinesApart
  <2>4. QED
    BY <2>1, <2>2, <2>3
<1>7. LinesApart'
  <2> SUFFICES ASSUME "raced" \notin mishaps', "glued" \notin mishaps'
               PROVE  /\ tail' = <<>> \/ Len(tail') = 1
                      /\ \A u \in Threads : pc'[u] = "newline" =>
                           tail' = <<job'[u]>> /\ \A v \in Others(u) : pc'[v] # "newline"
    BY DEF LinesApart
  <2>1. tail' = <<job[t]>> /\ \A u \in Threads : pc[u] # "newline"
    BY <1>6
  <2>2. ASSUME NEW u \in Threads, pc'[u] = "newline"
        PROVE  u = t
    BY <1>3, <2>1, <2>2 DEF Others
  <2>3. QED
    BY <1>1, <1>3, <2>1, <2>2 DEF Others
<1>8. AckedRead'
  <2> SUFFICES ASSUME "raced" \notin mishaps', "glued" \notin mishaps', NEW x \in acked
               PROVE  \E i \in 1..Len(Loaded') : Loaded'[i] = x
    BY <1>1 DEF AckedRead
  <2>1. \E i \in 1..Len(whole) : whole[i] = x
    BY <1>2, <1>6 DEF FileInv, AckedRead
  <2>2. QED
    BY <1>2, <1>6, <2>1, StillFound
<1>9. ChainsHold' /\ FilePending'
  <2> SUFFICES ASSUME mishaps' = {}
               PROVE  VerifyChain(Loaded') /\ VerifyChain(mem') /\ Pending'
    BY <1>1 DEF ChainsHold, FilePending
  <2>1. /\ Pending /\ VerifyChain(mem) /\ mem \in Seq(Entry) /\ Loaded \in Seq(Entry)
        /\ job[t].seq = Len(Loaded) + 1 /\ Loaded' = Append(Loaded, job[t])
        /\ Begins(Loaded', mem)
    BY LineIsNext
  <2>2. Loaded' \in Seq(Entry) /\ Len(Loaded') = Len(Loaded) + 1 /\ Len(Loaded) \in Nat /\ Len(mem) \in Nat
    BY <1>2, <2>1
  <2>3. VerifyChain(Loaded')
    BY <2>1, <2>2, BeginningHolds
  <2>4. ASSUME NEW i \in Len(Loaded') + 1..Len(mem)
        PROVE  \E u \in Threads : pc'[u] = "line" /\ job[u] = mem[i]
    <3>1. i \in Len(Loaded) + 1..Len(mem) /\ i # Len(Loaded) + 1 /\ i \in 1..Len(mem)
      BY <2>2
    <3>2. PICK u \in Threads : pc[u] = "line" /\ job[u] = mem[i]
      BY <2>1, <3>1 DEF Pending
    <3>3. u # t
      BY <2>1, <3>1, <3>2 DEF VerifyChain
    <3>4. QED
      BY <1>3, <3>2, <3>3 DEF Others
  <2>5. ASSUME NEW u \in Threads, pc'[u] = "line"
        PROVE  /\ u # t /\ pc[u] = "line"
               /\ job[u].seq \in Len(Loaded') + 1..Len(mem) /\ mem[job[u].seq] = job[u]
    <3>1. u # t /\ pc[u] = "line"
      BY <1>3, <2>5 DEF Others
    <3>2. job[u].seq \in Len(Loaded) + 1..Len(mem) /\ mem[job[u].seq] = job[u] /\ job[u].seq # job[t].seq
      BY <1>1, <2>1, <3>1 DEF Pending
    <3>3. QED
      BY <2>1, <2>2, <3>1, <3>2
  <2>6. ASSUME NEW u \in Threads, NEW v \in Threads, u # v, pc'[u] = "line", pc'[v] = "line"
        PROVE  job[u].seq # job[v].seq
    BY <2>1, <2>5, <2>6 DEF Pending
  <2>7. Pending'
    BY <1>1, <2>1, <2>4, <2>5, <2>6 DEF Pending
  <2>8. QED
    BY <1>1, <2>1, <2>3, <2>7
<1>10. QED
  BY <1>1, <1>5, <1>7, <1>8, <1>9 DEF FileInv, DownIsIdle

\* Writing the newline changes nothing a reload would find.
LEMMA FileNewline ==
  ASSUME FileInv, TypeOK', NEW t \in Threads, WriteNewline(t)
  PROVE  FileInv'
<1>1. /\ up /\ up' /\ mem' = mem /\ job' = job /\ pc[t] = "newline" /\ pc' = [pc EXCEPT ![t] = "idle"]
      /\ whole' = Loaded /\ tail' = <<>> /\ Loaded' = Loaded
      /\ acked' = acked \cup {job[t]} /\ UNCHANGED <<lagging, mishaps>>
  BY DEF WriteNewline, Goto, Loaded
<1>2. pc'[t] = "idle" /\ \A u \in Others(t) : pc'[u] = pc[u]
  BY <1>1 DEF FileInv, TypeOK, Others
<1>3. Truncating' <=> Truncating
  BY <1>1, <1>2 DEF Truncating, Others
<1>4. ResetAlone'
  <2> SUFFICES ASSUME "raced" \notin mishaps', NEW u \in Threads, pc'[u] = "truncate"
               PROVE  FALSE
    BY DEF ResetAlone
  <2>1. pc[u] = "truncate" /\ u # t
    BY <1>2 DEF Others
  <2>2. Alone(u)
    BY <1>1, <2>1 DEF FileInv, ResetAlone
  <2>3. QED
    BY <1>1, <2>1, <2>2 DEF Alone, Others
<1>5. ASSUME "raced" \notin mishaps, "glued" \notin mishaps
      PROVE  tail = <<job[t]>> /\ \A u \in Others(t) : pc[u] # "newline"
  BY <1>1, <1>5 DEF FileInv, LinesApart
<1>6. LinesApart'
  BY <1>1, <1>2, <1>5 DEF LinesApart, Others
<1>7. AckedRead'
  <2> SUFFICES ASSUME "raced" \notin mishaps, "glued" \notin mishaps, NEW x \in acked'
               PROVE  \E i \in 1..Len(Loaded) : Loaded[i] = x
    BY <1>1 DEF AckedRead
  <2>1. CASE x \in acked
    BY <2>1 DEF FileInv, AckedRead
  <2>2. CASE x = job[t]
    <3>1. Loaded = Append(whole, job[t]) /\ whole \in Seq(Entry) /\ job[t] \in Entry
      BY <1>5 DEF Loaded, FileInv, TypeOK
    <3>2. QED
      BY <2>2, <3>1
  <2>3. QED
    BY <1>1, <2>1, <2>2
<1>8. ChainsHold' /\ DownIsIdle'
  BY <1>1 DEF FileInv, ChainsHold, DownIsIdle
<1>9. FilePending'
  <2> SUFFICES ASSUME mishaps = {}, ~lagging, ~Truncating
               PROVE  Pending'
    BY <1>1, <1>3 DEF FilePending
  <2>1. Pending
    BY <1>1 DEF FileInv, FilePending
  <2>2. \A u \in Threads : pc'[u] = "line" <=> pc[u] = "line"
    BY <1>1, <1>2 DEF Others
  <2>3. QED
    BY <1>1, <2>1, <2>2 DEF Pending
<1>10. QED
  BY <1>4, <1>6, <1>7, <1>8, <1>9 DEF FileInv

\* A write that fails leaves the file as it was.
LEMMA FileFails ==
  ASSUME FileInv, TypeOK', NEW t \in Threads, PersistFails(t)
  PROVE  FileInv'
<1>1. /\ up /\ up' /\ mem' = mem /\ job' = job /\ pc' = [pc EXCEPT ![t] = "idle"] /\ lagging'
      /\ Loaded' = Loaded /\ UNCHANGED <<whole, tail, acked, mishaps>>
  BY DEF PersistFails, Goto, Loaded
<1>2. pc'[t] = "idle" /\ \A u \in Others(t) : pc'[u] = pc[u]
  BY <1>1 DEF FileInv, TypeOK, Others
<1>3. ASSUME NEW u \in Threads, pc'[u] # "idle"
      PROVE  u # t /\ pc'[u] = pc[u]
  BY <1>2, <1>3 DEF Others
<1>4. ResetAlone'
  <2> SUFFICES ASSUME "raced" \notin mishaps, NEW u \in Threads, pc'[u] = "truncate"
               PROVE  (Alone(u) /\ mem = <<job[u]>> /\ VerifyChain(mem) /\ acked = {})'
    BY <1>1 DEF ResetAlone
  <2>1. pc[u] = "truncate"
    BY <1>3
  <2>2. Alone(u) /\ mem = <<job[u]>> /\ VerifyChain(mem) /\ acked = {}
    BY <2>1 DEF FileInv, ResetAlone
  <2>3. Alone(u)'
    BY <1>2, <2>2 DEF Alone, Others
  <2>4. QED
    BY <1>1, <2>2, <2>3
<1>5. LinesApart'
  BY <1>1, <1>3 DEF FileInv, LinesApart, Others
<1>6. AckedRead' /\ ChainsHold' /\ DownIsIdle' /\ FilePending'
  BY <1>1 DEF FileInv, AckedRead, ChainsHold, DownIsIdle, FilePending
<1>7. QED
  BY <1>4, <1>5, <1>6 DEF FileInv

\* A reset is alone, or races another handler.
LEMMA FileClear ==
  ASSUME FileInv, TypeOK', NEW t \in Threads, ClearInMemory(t)
  PROVE  FileInv'
<1> DEFINE e == NextEntry(<<>>, spent["event"] + 1)
<1>1. spent["event"] + 1 \in Nat
  BY DEF FileInv, TypeOK, Occurrence
<1>2. e \in Entry
  BY <1>1, EmptyLog, NextEntryType
<1>3. /\ mem' = <<e>> /\ job' = [job EXCEPT ![t] = e] /\ pc' = [pc EXCEPT ![t] = "truncate"]
      /\ up /\ up' /\ pc[t] = "idle" /\ acked' = {} /\ Loaded' = Loaded /\ UNCHANGED <<whole, tail>>
      /\ mishaps' = IF Alone(t) THEN mishaps ELSE mishaps \cup {"raced"}
  BY DEF ClearInMemory, Goto, Loaded
<1>4. VerifyChain(mem')
  <2>1. VerifyChain(Append(<<>>, e))
    BY <1>1, EmptyLog, AppendKeepsChain
  <2> HIDE DEF e
  <2>2. QED
    BY <1>3, <2>1
<1> HIDE DEF e
<1>5. pc'[t] = "truncate" /\ job'[t] = e /\ \A u \in Others(t) : pc'[u] = pc[u]
  BY <1>3 DEF FileInv, TypeOK, Others
<1>6. Truncating'
  BY <1>5 DEF Truncating
<1>7. ResetAlone'
  <2> SUFFICES ASSUME "raced" \notin mishaps', NEW u \in Threads, pc'[u] = "truncate"
               PROVE  Alone(u)' /\ mem' = <<job'[u]>>
    BY <1>3, <1>4 DEF ResetAlone
  <2>1. Alone(t)
    BY <1>3
  <2>2. u = t
    BY <1>5, <2>1 DEF Alone, Others
  <2>3. Alone(t)'
    BY <1>5, <2>1 DEF Alone, Others
  <2>4. QED
    BY <1>3, <1>5, <2>2, <2>3
<1>8. LinesApart'
  <2> SUFFICES ASSUME "raced" \notin mishaps', "glued" \notin mishaps'
               PROVE  /\ tail = <<>> \/ Len(tail) = 1
                      /\ \A u \in Threads : pc'[u] # "newline"
    BY <1>3 DEF LinesApart
  <2>1. Alone(t) /\ "glued" \notin mishaps /\ "raced" \notin mishaps
    BY <1>3
  <2>2. QED
    BY <1>5, <2>1 DEF FileInv, LinesApart, Alone, Others
<1>9. AckedRead' /\ ChainsHold' /\ DownIsIdle' /\ FilePending'
  BY <1>3, <1>4, <1>6 DEF FileInv, AckedRead, ChainsHold, DownIsIdle, FilePending
<1>10. QED
  BY <1>7, <1>8, <1>9 DEF FileInv

\* The emptied file lacks the genesis entry only, which its handler holds.
LEMMA FileTruncate ==
  ASSUME FileInv, TypeOK', NEW t \in Threads, Truncate(t)
  PROVE  FileInv'
<1>1. /\ up /\ up' /\ mem' = mem /\ job' = job /\ pc[t] = "truncate" /\ pc' = [pc EXCEPT ![t] = "line"]
      /\ whole' = <<>> /\ tail' = <<>> /\ Loaded' = <<>> /\ acked' = acked
      /\ mishaps' = mishaps \cap {"raced"}
  BY DEF Truncate, Goto, Loaded
<1>2. pc'[t] = "line" /\ \A u \in Others(t) : pc'[u] = pc[u]
  BY <1>1 DEF FileInv, TypeOK, Others
<1>3. ASSUME "raced" \notin mishaps'
      PROVE  /\ mem = <<job[t]>> /\ VerifyChain(mem) /\ acked = {}
             /\ \A u \in Threads : u # t => pc'[u] = "idle"
  <2>1. Alone(t) /\ mem = <<job[t]>> /\ VerifyChain(mem) /\ acked = {}
    BY <1>1, <1>3 DEF FileInv, ResetAlone
  <2>2. QED
    BY <1>2, <2>1 DEF Alone, Others
<1>4. ResetAlone' /\ LinesApart' /\ AckedRead' /\ DownIsIdle'
  BY <1>1, <1>2, <1>3 DEF ResetAlone, LinesApart, AckedRead, DownIsIdle
<1>5. ASSUME mishaps' = {}
      PROVE  VerifyChain(Loaded') /\ VerifyChain(mem') /\ Pending'
  <2>1. mem = <<job[t]>> /\ VerifyChain(mem) /\ \A u \in Threads : u # t => pc'[u] = "idle"
    BY <1>3, <1>5
  <2>2. Len(mem) = 1 /\ mem[1] = job[t] /\ job[t].seq = 1
    BY <2>1 DEF VerifyChain
  <2>3. Pending'
    BY <1>1, <1>2, <2>1, <2>2 DEF Pending, Begins
  <2>4. QED
    BY <1>1, <2>1, <2>3, EmptyLog
<1>6. ChainsHold' /\ FilePending'
  BY <1>5 DEF ChainsHold, FilePending
<1>7. QED
  BY <1>4, <1>6 DEF FileInv

\* The process stops, and starts again from the file or without it.
LEMMA FileRestart ==
  ASSUME FileInv, TypeOK', Crash \/ Boot \/ BootUnreadable
  PROVE  FileInv'
<1>1. Loaded' = Loaded /\ UNCHANGED <<whole, tail, acked, mishaps>> /\ Loaded \in Seq(Entry)
  BY LoadedType DEF Crash, Boot, BootUnreadable, Loaded, FileInv, TypeOK
<1>2. \A t \in Threads : pc'[t] = "idle"
  BY DEF Crash, Boot, BootUnreadable, FileInv, DownIsIdle
<1>3. ResetAlone' /\ LinesApart' /\ AckedRead' /\ DownIsIdle'
  BY <1>1, <1>2 DEF FileInv, ResetAlone, LinesApart, AckedRead, DownIsIdle
<1>4. CASE Crash
  BY <1>1, <1>3, <1>4 DEF Crash, FileInv, ChainsHold, FilePending
<1>5. CASE Boot
  <2>1. mem' = Loaded
    BY <1>5 DEF Boot
  <2>2. Pending'
    BY <1>1, <1>2, <2>1 DEF Pending, Begins
  <2>3. QED
    BY <1>1, <1>3, <2>1, <2>2 DEF FileInv, ChainsHold, FilePending
<1>6. CASE BootUnreadable
  BY <1>1, <1>3, <1>6, EmptyLog DEF BootUnreadable, FileInv, ChainsHold, FilePending
<1>7. QED
  BY <1>4, <1>5, <1>6

\* No step breaks what holds of the file.
LEMMA FileStep == FileInv /\ [Next]_vars => FileInv'
<1> SUFFICES ASSUME FileInv, [Next]_vars PROVE FileInv'
  OBVIOUS
<1>1. TypeOK'
  BY TypeCorrectStep DEF FileInv
<1>2. CASE UNCHANGED vars
  <2>1. /\ UNCHANGED <<up, mem, whole, tail, pc, job, acked, lagging, mishaps>>
        /\ Loaded' = Loaded
    BY <1>2 DEF vars, auxVars, Loaded
  <2>2. ResetAlone' /\ LinesApart' /\ AckedRead' /\ DownIsIdle' /\ ChainsHold'
    BY <2>1 DEF FileInv, ResetAlone, Alone, LinesApart, AckedRead, DownIsIdle, ChainsHold
  <2>3. FilePending'
    BY <2>1 DEF FileInv, FilePending, Truncating, Pending
  <2>4. QED
    BY <1>1, <2>2, <2>3 DEF FileInv
<1>3. QED
  BY <1>1, <1>2, FileAppend, FileLine, FileNewline, FileFails, FileClear, FileTruncate, FileRestart
  DEF Next

LEMMA FileInvariant == Spec => []FileInv
BY FileInit, FileStep, PTL DEF Spec

\* Whatever handlers, failures and crashes do, an entry whose handler was told
\* it is written is read back by a reload, unless a line was glued to another or
\* a reset met another handler: nothing else loses an acknowledged entry.
THEOREM AckedAlwaysSurvives == Spec => []AckedSurvives
<1>1. FileInv => AckedSurvives
  BY DEF FileInv, AckedRead, AckedSurvives
<1>2. QED
  BY <1>1, FileInvariant, PTL

\* A reload finds an intact chain at any time, unless one of the four mishaps
\* has happened since the file was last emptied.
THEOREM ReloadOrderly == Spec => []OrderlyReload
<1>1. FileInv => OrderlyReload
  BY DEF FileInv, ChainsHold, OrderlyReload
<1>2. QED
  BY <1>1, FileInvariant, PTL

\* The log that was appended to begins with what it was.
LEMMA AppendedPrefix ==
  ASSUME NEW log \in Seq(Entry), NEW e \in Entry
  PROVE  /\ IsPrefix(log, Append(log, e)) /\ IsStrictPrefix(log, Append(log, e))
         /\ Len(Append(log, e)) = Len(log) + 1 /\ Last(Append(log, e)) = e
<1>1. /\ Len(Append(log, e)) = Len(log) + 1 /\ Append(log, e)[Len(log) + 1] = e
      /\ \A i \in 1..Len(log) : Append(log, e)[i] = log[i]
  OBVIOUS
<1>2. SubSeq(log, 1, Len(log)) = SubSeq(Append(log, e), 1, Len(log))
  OBVIOUS
<1>3. log # Append(log, e)
  BY <1>1
<1>4. QED
  BY <1>1, <1>2, <1>3 DEF IsPrefix, IsStrictPrefix, Last

\* A log begins with each of its beginnings.
LEMMA BeginningIsPrefix ==
  ASSUME NEW s \in Seq(Entry), NEW log \in Seq(Entry), Begins(s, log)
  PROVE  IsPrefix(s, log)
<1>1. Len(s) \in Nat /\ Len(log) \in Nat /\ Len(s) <= Len(log) /\ \A i \in 1..Len(s) : s[i] = log[i]
  BY DEF Begins
<1>2. SubSeq(s, 1, Len(s)) = SubSeq(log, 1, Len(s))
  <2>1. SubSeq(s, 1, Len(s)) = [i \in 1..Len(s) |-> s[i]]
    OBVIOUS
  <2>2. SubSeq(log, 1, Len(s)) = [i \in 1..Len(s) |-> log[i]]
    BY <1>1
  <2>3. QED
    BY <1>1, <2>1, <2>2
<1>3. QED
  BY <1>1, <1>2 DEF IsPrefix

\* Every step of the ledger is a step of the abstract one, or none of it.
LEMMA StepRefines == FileInv /\ [Next]_vars => [Abstract!DNext]_Abstract!dvars
<1> SUFFICES ASSUME FileInv, [Next]_vars PROVE [Abstract!DNext]_Abstract!dvars
  OBVIOUS
<1> DEFINE wiping == \E t \in Threads : pc[t] = "truncate"
           log == IF up THEN mem ELSE Loaded
<1>0. /\ mem \in Seq(Entry) /\ Loaded \in Seq(Entry) /\ pc \in [Threads -> Position]
      /\ wiping \in BOOLEAN /\ (up => log = mem)
  BY LoadedType, Zenon DEF FileInv, TypeOK
<1>1. ASSUME NEW t \in Threads, AppendInMemory(t)
      PROVE  Abstract!AppendRecord
  <2> DEFINE e == NextEntry(mem, spent["event"] + 1)
  <2>1. spent["event"] + 1 \in Nat
    BY DEF FileInv, TypeOK, Occurrence
  <2>2. e \in Entry
    BY <1>0, <2>1, NextEntryType
  <2>3. /\ mem' = Append(mem, e) /\ pc[t] = "idle" /\ pc' = [pc EXCEPT ![t] = "line"]
        /\ up /\ up' /\ Loaded' = Loaded /\ (mishaps' = {} => mishaps = {})
    BY <1>1 DEF AppendInMemory, Goto, Loaded
  <2> HIDE DEF e
  <2>4. Len(mem') = Len(mem) + 1 /\ IsPrefix(mem, mem') /\ Last(mem') \in Entry
    BY <1>0, <2>2, <2>3, AppendedPrefix
  <2>5. wiping' = wiping
    BY <1>0, <2>3
  <2>6. QED
    BY <2>3, <2>4, <2>5
    DEF Abstract!AppendRecord, Abstract!NoTidier, Abstract!IsPrefix, Abstract!Last, IsPrefix, Last
<1>2. ASSUME NEW t \in Threads, WriteLine(t)
      PROVE  Abstract!Harden \/ Abstract!Disorder
  <2>1. up /\ up' /\ mem' = mem
    BY <1>2 DEF WriteLine
  <2>2. CASE mishaps' # {}
    BY <2>1, <2>2 DEF Abstract!Disorder
  <2>3. CASE mishaps' = {}
    <3>1. TypeOK'
      BY TypeCorrectStep DEF FileInv
    <3>2. /\ mishaps = {} /\ ~Truncating /\ job[t] \in Entry
          /\ Loaded' = Append(Loaded, job[t]) /\ Begins(Loaded', mem)
      BY <1>2, <2>3, <3>1, LineIsNext
    <3>3. pc' = [pc EXCEPT ![t] = "newline"]
      BY <1>2 DEF WriteLine, Goto
    <3>4. ~wiping /\ ~wiping'
      BY <1>0, <3>2, <3>3 DEF Truncating
    <3>5. IsStrictPrefix(Loaded, Loaded') /\ Loaded' \in Seq(Entry)
      BY <1>0, <3>2, AppendedPrefix
    <3>6. IsPrefix(Loaded', mem)
      BY <1>0, <3>2, <3>5, BeginningIsPrefix
    <3>7. Abstract!Harden
      BY <2>1, <2>3, <3>2, <3>4, <3>5, <3>6
      DEF Abstract!Harden, Abstract!IsPrefix, Abstract!IsStrictPrefix, IsPrefix, IsStrictPrefix
    <3>8. QED
      BY <3>7
  <2>4. QED
    BY <2>2, <2>3
<1>3. ASSUME NEW t \in Threads, WriteNewline(t)
      PROVE  UNCHANGED Abstract!dvars
  <2>1. /\ pc[t] = "newline" /\ pc' = [pc EXCEPT ![t] = "idle"] /\ mem' = mem /\ up /\ up'
        /\ Loaded' = Loaded /\ mishaps' = mishaps
    BY <1>3 DEF WriteNewline, Goto, Loaded
  <2>2. wiping' = wiping
    BY <1>0, <2>1
  <2>3. QED
    BY <2>1, <2>2 DEF Abstract!dvars
<1>4. ASSUME NEW t \in Threads, PersistFails(t)
      PROVE  UNCHANGED Abstract!dvars \/ Abstract!Keep
  <2>1. /\ pc' = [pc EXCEPT ![t] = "idle"] /\ mem' = mem /\ up /\ up'
        /\ Loaded' = Loaded /\ mishaps' = mishaps
    BY <1>4 DEF PersistFails, Goto, Loaded
  <2>2. wiping' => wiping
    BY <1>0, <2>1
  <2>3. CASE wiping' = wiping
    BY <2>1, <2>3 DEF Abstract!dvars
  <2>4. CASE wiping /\ ~wiping'
    BY <2>1, <2>4 DEF Abstract!Keep
  <2>5. QED
    BY <1>0, <2>2, <2>3, <2>4
<1>5. ASSUME NEW t \in Threads, ClearInMemory(t)
      PROVE  Abstract!Wipe
  <2> DEFINE e == NextEntry(<<>>, spent["event"] + 1)
  <2>1. spent["event"] + 1 \in Nat
    BY DEF FileInv, TypeOK, Occurrence
  <2>2. e \in Entry
    BY <2>1, EmptyLog, NextEntryType
  <2>3. /\ mem' = <<e>> /\ pc' = [pc EXCEPT ![t] = "truncate"] /\ up' /\ Loaded' = Loaded
        /\ (mishaps' = {} => mishaps = {})
    BY <1>5 DEF ClearInMemory, Goto, Loaded
  <2> HIDE DEF e
  <2>4. Len(mem') = 1 /\ mem'[1] \in Entry
    BY <2>2, <2>3
  <2>5. wiping'
    BY <1>0, <2>3
  <2>6. QED
    BY <2>3, <2>4, <2>5 DEF Abstract!Wipe, Abstract!NoTidier
<1>6. ASSUME NEW t \in Threads, Truncate(t)
      PROVE  Abstract!Discard \/ Abstract!Disorder
  <2>1. /\ pc[t] = "truncate" /\ pc' = [pc EXCEPT ![t] = "line"] /\ mem' = mem /\ up /\ up'
        /\ Loaded' = <<>> /\ mishaps' = mishaps \cap {"raced"}
    BY <1>6 DEF Truncate, Goto, Loaded
  <2>2. CASE "raced" \in mishaps
    <3>1. mishaps' # {}
      BY <2>1, <2>2
    <3>2. QED
      BY <2>1, <3>1 DEF Abstract!Disorder
  <2>3. CASE "raced" \notin mishaps
    <3>1. Alone(t)
      BY <2>1, <2>3 DEF FileInv, ResetAlone
    <3>2. wiping /\ ~wiping'
      BY <1>0, <2>1, <3>1 DEF Alone, Others
    <3>3. QED
      BY <2>1, <3>2 DEF Abstract!Discard
  <2>4. QED
    BY <2>2, <2>3
<1>7. CASE Crash
  <2>1. /\ pc' = [t \in Threads |-> "idle"] /\ ~up' /\ Loaded' = Loaded /\ mishaps' = mishaps
    BY <1>7 DEF Crash, Loaded
  <2>2. ~wiping'
    BY <2>1
  <2>3. Abstract!Restart
    BY <2>1, <2>2 DEF Abstract!Restart
  <2>4. QED
    BY <2>3 DEF Abstract!DNext
<1>8. CASE Boot
  <2>1. ~up /\ up' /\ mem' = Loaded /\ pc' = pc /\ Loaded' = Loaded /\ mishaps' = mishaps
    BY <1>8 DEF Boot, Loaded
  <2>2. QED
    BY <2>1 DEF Abstract!dvars
<1>9. CASE BootUnreadable
  <2>1. ~up /\ up' /\ mem' = <<>> /\ pc' = pc /\ Loaded' = Loaded /\ mishaps' = mishaps
    BY <1>9 DEF BootUnreadable, Loaded
  <2>2. ~wiping'
    BY <2>1 DEF FileInv, DownIsIdle
  <2>3. Abstract!Restart
    BY <2>1, <2>2 DEF Abstract!Restart
  <2>4. QED
    BY <2>3 DEF Abstract!DNext
<1>10. CASE UNCHANGED vars
  BY <1>10 DEF vars, auxVars, Loaded, Abstract!dvars
<1>11. QED
  BY <1>1, <1>2, <1>3, <1>4, <1>5, <1>6, <1>7, <1>8, <1>9, <1>10 DEF Next, Abstract!DNext

\* The ledger is a durable ledger, however many handlers it has and whatever fails:
\* the log only grows, what is durable is a growing beginning of it while the file
\* is tidy, and a restart resumes from what is durable.
THEOREM ImplementsDurableLedger == Spec => IsDurableLedger
<1>1. Init => Abstract!DInit
  BY DEF Init, Loaded, Abstract!DInit
<1>2. QED
  BY <1>1, StepRefines, FileInvariant, PTL DEF Spec, IsDurableLedger, Abstract!DSpec

LEMMA Least ==
  ASSUME NEW T \in SUBSET Nat, T # {}
  PROVE  \E n \in T : \A m \in T : n <= m
<1> DEFINE F == { 0..n : n \in T }
<1>1. F \subseteq FiniteSubsetsOf(Nat) /\ F # {}
  <2>1. ASSUME NEW n \in T PROVE 0..n \in FiniteSubsetsOf(Nat)
    <3>1. IsFiniteSet(0..n)
      BY FS_Interval
    <3> QED BY <3>1 DEF FiniteSubsetsOf
  <2> QED BY <2>1
<1>2. PICK x \in F : \A y \in F : ~(<<y, x>> \in StrictSubsetOrdering(Nat))
  <2>1. IsWellFoundedOn(StrictSubsetOrdering(Nat), FiniteSubsetsOf(Nat))
    BY FS_StrictSubsetOrderingWellFounded
  <2> QED BY <2>1, <1>1, WFMin, Zenon
<1>3. PICK n \in T : x = 0..n
  BY <1>2
<1>4. ASSUME NEW m \in T PROVE n <= m
  <2>1. SUFFICES ASSUME m < n PROVE FALSE
    OBVIOUS
  <2>2. 0..m \in F /\ ~(<<0..m, 0..n>> \in StrictSubsetOrdering(Nat))
    BY <1>2, <1>3
  <2>3. 0..m \subseteq Nat /\ 0..n \subseteq Nat /\ 0..m \subseteq 0..n /\ n \in 0..n /\ n \notin 0..m
    BY <2>1
  <2>4. 0..m # 0..n
    BY <2>3
  <2> QED BY <2>2, <2>3, <2>4 DEF StrictSubsetOrdering
<1> QED BY <1>4

\* A set that holds 0 and with each number the next one holds them all.
LEMMA SetInduction ==
  ASSUME NEW S \in SUBSET Nat, 0 \in S, \A n \in S : n + 1 \in S
  PROVE  S = Nat
<1>1. SUFFICES ASSUME Nat \ S # {} PROVE FALSE
  OBVIOUS
<1>2. PICK n \in Nat \ S : \A m \in Nat \ S : n <= m
  BY <1>1, Least
<1>3. n # 0 /\ n - 1 \in S
  BY <1>2
<1> QED BY <1>2, <1>3

-----------------------------------------------------------------------------
(***************************************************************************)
(* The Merkle tree.                                                        *)
(***************************************************************************)

\* The loop of merkle_root does what its recursive definition says: for every n there
\* is a run of n rounds, longer runs extend shorter ones, and Rounds is their limit.
LEMMA RoundsRecursion ==
  ASSUME NEW leaves
  PROVE  /\ Rounds(leaves)[0] = leaves
         /\ \A k \in Nat : Rounds(leaves)[k + 1] = ParentLevel(Rounds(leaves)[k])
<1> DEFINE IsRun(g, n) == g = [k \in 0..n |-> IF k = 0 THEN leaves ELSE ParentLevel(g[k - 1])]
           S == { n \in Nat : \E g : IsRun(g, n) }
           Run(n) == CHOOSE g : IsRun(g, n)
           f == [n \in Nat |-> Run(n)[n]]
<1>1. S = Nat
  <2>1. 0 \in S
    <3>1. IsRun([k \in 0..0 |-> leaves], 0)
      OBVIOUS
    <3> QED BY <3>1
  <2>2. ASSUME NEW n \in S PROVE n + 1 \in S
    <3>1. PICK g : IsRun(g, n)
      OBVIOUS
    <3> DEFINE h == [k \in 0..(n + 1) |-> IF k = n + 1 THEN ParentLevel(g[n]) ELSE g[k]]
    <3>2. ASSUME NEW k \in 0..(n + 1)
          PROVE  h[k] = IF k = 0 THEN leaves ELSE ParentLevel(h[k - 1])
      <4>1. CASE k = n + 1
        BY <4>1
      <4>2. CASE k # n + 1
        <5>1. k \in 0..n /\ (k # 0 => k - 1 \in 0..n /\ k - 1 # n + 1)
          BY <4>2
        <5>2. h[k] = g[k] /\ (k # 0 => h[k - 1] = g[k - 1])
          BY <4>2, <5>1
        <5> HIDE DEF h
        <5> QED BY <3>1, <5>1, <5>2
      <4> QED BY <4>1, <4>2
    <3>3. IsRun(h, n + 1)
      <4>1. h = [k \in 0..(n + 1) |-> h[k]]
        OBVIOUS
      <4> HIDE DEF h
      <4> QED BY <3>2, <4>1
    <3> HIDE DEF IsRun
    <3> QED BY <3>3
  <2> QED BY <2>1, <2>2, SetInduction
<1>2. \A n \in Nat : IsRun(Run(n), n)
  <2> HIDE DEF IsRun
  <2> QED BY <1>1
<1>3. ASSUME NEW n \in Nat PROVE \A k \in 0..n : Run(n)[k] = Run(n + 1)[k]
  <2> HIDE DEF Run
  <2> DEFINE T == { k \in Nat : k <= n => Run(n)[k] = Run(n + 1)[k] }
  <2>1. 0 \in T
    BY <1>2
  <2>2. ASSUME NEW k \in T PROVE k + 1 \in T
    <3>1. IsRun(Run(n), n) /\ IsRun(Run(n + 1), n + 1)
      BY <1>2
    <3>2. k + 1 <= n => Run(n)[k + 1] = ParentLevel(Run(n)[k]) /\ Run(n + 1)[k + 1] = ParentLevel(Run(n + 1)[k])
      BY <3>1
    <3> QED BY <3>2
  <2>3. T = Nat
    <3>1. T \in SUBSET Nat
      OBVIOUS
    <3> HIDE DEF T
    <3> QED BY <2>1, <2>2, <3>1, SetInduction
  <2> QED BY <2>3
<1>4. f = [k \in Nat |-> IF k = 0 THEN leaves ELSE ParentLevel(f[k - 1])]
  <2>1. ASSUME NEW k \in Nat PROVE f[k] = IF k = 0 THEN leaves ELSE ParentLevel(f[k - 1])
    <3> HIDE DEF Run
    <3>1. CASE k = 0
      BY <1>2, <3>1
    <3>2. CASE k # 0
      <4>1. k - 1 \in Nat /\ k = (k - 1) + 1 /\ k - 1 \in 0..(k - 1) /\ k \in 0..k
        BY <3>2
      <4>2. Run(k)[k] = ParentLevel(Run(k)[k - 1])
        BY <1>2, <3>2, <4>1
      <4>3. Run(k)[k - 1] = Run(k - 1)[k - 1]
        BY <1>3, <4>1
      <4> QED BY <3>2, <4>1, <4>2, <4>3
    <3> QED BY <3>1, <3>2
  <2>2. f = [k \in Nat |-> f[k]]
    OBVIOUS
  <2> HIDE DEF f
  <2> QED BY <2>1, <2>2
<1> HIDE DEF f
<1>5. Rounds(leaves) = [k \in Nat |-> IF k = 0 THEN leaves ELSE ParentLevel(Rounds(leaves)[k - 1])]
  BY <1>4 DEF Rounds
<1>6. \A k \in Nat : k + 1 \in Nat /\ k + 1 # 0 /\ (k + 1) - 1 = k
  OBVIOUS
<1> QED BY <1>5, <1>6

\* The same of the position of an entry.
LEMMA PositionRecursion ==
  ASSUME NEW i
  PROVE  /\ PositionOf(i)[0] = i
         /\ \A k \in Nat : PositionOf(i)[k + 1] = (PositionOf(i)[k] + 1) \div 2
<1> DEFINE IsRun(g, n) == g = [k \in 0..n |-> IF k = 0 THEN i ELSE (g[k - 1] + 1) \div 2]
           S == { n \in Nat : \E g : IsRun(g, n) }
           Run(n) == CHOOSE g : IsRun(g, n)
           f == [n \in Nat |-> Run(n)[n]]
<1>1. S = Nat
  <2>1. 0 \in S
    <3>1. IsRun([k \in 0..0 |-> i], 0)
      OBVIOUS
    <3> QED BY <3>1
  <2>2. ASSUME NEW n \in S PROVE n + 1 \in S
    <3>1. PICK g : IsRun(g, n)
      OBVIOUS
    <3> DEFINE h == [k \in 0..(n + 1) |-> IF k = n + 1 THEN (g[n] + 1) \div 2 ELSE g[k]]
    <3>2. ASSUME NEW k \in 0..(n + 1)
          PROVE  h[k] = IF k = 0 THEN i ELSE (h[k - 1] + 1) \div 2
      <4>1. CASE k = n + 1
        BY <4>1
      <4>2. CASE k # n + 1
        <5>1. k \in 0..n /\ (k # 0 => k - 1 \in 0..n /\ k - 1 # n + 1)
          BY <4>2
        <5>2. h[k] = g[k] /\ (k # 0 => h[k - 1] = g[k - 1])
          BY <4>2, <5>1
        <5> HIDE DEF h
        <5> QED BY <3>1, <5>1, <5>2
      <4> QED BY <4>1, <4>2
    <3>3. IsRun(h, n + 1)
      <4>1. h = [k \in 0..(n + 1) |-> h[k]]
        OBVIOUS
      <4> HIDE DEF h
      <4> QED BY <3>2, <4>1
    <3> HIDE DEF IsRun
    <3> QED BY <3>3
  <2> QED BY <2>1, <2>2, SetInduction
<1>2. \A n \in Nat : IsRun(Run(n), n)
  <2> HIDE DEF IsRun
  <2> QED BY <1>1
<1>3. ASSUME NEW n \in Nat PROVE \A k \in 0..n : Run(n)[k] = Run(n + 1)[k]
  <2> HIDE DEF Run
  <2> DEFINE T == { k \in Nat : k <= n => Run(n)[k] = Run(n + 1)[k] }
  <2>1. 0 \in T
    BY <1>2
  <2>2. ASSUME NEW k \in T PROVE k + 1 \in T
    <3>1. IsRun(Run(n), n) /\ IsRun(Run(n + 1), n + 1)
      BY <1>2
    <3>2. k + 1 <= n => Run(n)[k + 1] = (Run(n)[k] + 1) \div 2 /\ Run(n + 1)[k + 1] = (Run(n + 1)[k] + 1) \div 2
      BY <3>1
    <3> QED BY <3>2
  <2>3. T = Nat
    <3>1. T \in SUBSET Nat
      OBVIOUS
    <3> HIDE DEF T
    <3> QED BY <2>1, <2>2, <3>1, SetInduction
  <2> QED BY <2>3
<1>4. f = [k \in Nat |-> IF k = 0 THEN i ELSE (f[k - 1] + 1) \div 2]
  <2>1. ASSUME NEW k \in Nat PROVE f[k] = IF k = 0 THEN i ELSE (f[k - 1] + 1) \div 2
    <3> HIDE DEF Run
    <3>1. CASE k = 0
      BY <1>2, <3>1
    <3>2. CASE k # 0
      <4>1. k - 1 \in Nat /\ k = (k - 1) + 1 /\ k - 1 \in 0..(k - 1) /\ k \in 0..k
        BY <3>2
      <4>2. Run(k)[k] = (Run(k)[k - 1] + 1) \div 2
        BY <1>2, <3>2, <4>1
      <4>3. Run(k)[k - 1] = Run(k - 1)[k - 1]
        BY <1>3, <4>1
      <4> QED BY <3>2, <4>1, <4>2, <4>3
    <3> QED BY <3>1, <3>2
  <2>2. f = [k \in Nat |-> f[k]]
    OBVIOUS
  <2> HIDE DEF f
  <2> QED BY <2>1, <2>2
<1> HIDE DEF f
<1>5. PositionOf(i) = [k \in Nat |-> IF k = 0 THEN i ELSE (PositionOf(i)[k - 1] + 1) \div 2]
  BY <1>4 DEF PositionOf
<1>6. \A k \in Nat : k + 1 \in Nat /\ k + 1 # 0 /\ (k + 1) - 1 = k
  OBVIOUS
<1> QED BY <1>5, <1>6

\* A level of n nodes.
IsLevel(l, n) == n \in Nat /\ l = [i \in 1..n |-> l[i]]

\* A level is a sequence, and its length is n.
LEMMA LevelIsSeq ==
  ASSUME NEW l, NEW n, IsLevel(l, n)
  PROVE  n \in Nat /\ DOMAIN l = 1..n /\ l \in Seq({ l[i] : i \in 1..n }) /\ Len(l) = n
<1> DEFINE V == { l[i] : i \in 1..n }
<1>1. n \in Nat /\ l \in [1..n -> V]
  BY DEF IsLevel
<1> HIDE DEF V
<1>2. l \in Seq(V) /\ Len(l) = n /\ DOMAIN l = 1..n
  BY <1>1
<1> QED BY <1>1, <1>2 DEF V

\* The level above, half as long rounded up, node by node.
LEMMA ParentIsLevel ==
  ASSUME NEW l, NEW n, IsLevel(l, n)
  PROVE  /\ IsLevel(ParentLevel(l), (n + 1) \div 2)
         /\ \A i \in 1..((n + 1) \div 2) :
              ParentLevel(l)[i] = NodeDigest(l[2 * i - 1], IF 2 * i <= n THEN l[2 * i] ELSE l[2 * i - 1])
<1>1. n \in Nat /\ Len(l) = n
  BY LevelIsSeq
<1>2. (n + 1) \div 2 \in Nat
  BY <1>1
<1> QED BY <1>1, <1>2 DEF ParentLevel, IsLevel

\* The length of the level k rounds up.
LenAt(leaves, k) == Len(Rounds(leaves)[k])

\* The loop halves the level in each round and never empties it.
LEMMA RoundsAreLevels ==
  ASSUME NEW leaves, NEW n \in Nat \ {0}, IsLevel(leaves, n)
  PROVE  /\ LenAt(leaves, 0) = n
         /\ \A k \in Nat :
              /\ LenAt(leaves, k) \in Nat \ {0}
              /\ IsLevel(Rounds(leaves)[k], LenAt(leaves, k))
              /\ LenAt(leaves, k + 1) = (LenAt(leaves, k) + 1) \div 2
<1> DEFINE Fine(k) == LenAt(leaves, k) \in Nat \ {0} /\ IsLevel(Rounds(leaves)[k], LenAt(leaves, k))
           T == { k \in Nat : Fine(k) }
<1>1. LenAt(leaves, 0) = n /\ Fine(0)
  BY RoundsRecursion, LevelIsSeq DEF LenAt
<1>2. ASSUME NEW k \in Nat, Fine(k)
      PROVE  Fine(k + 1) /\ LenAt(leaves, k + 1) = (LenAt(leaves, k) + 1) \div 2
  <2> DEFINE m == LenAt(leaves, k)
  <2>1. m \in Nat \ {0} /\ IsLevel(Rounds(leaves)[k], m)
    BY <1>2
  <2> HIDE DEF m
  <2>2. IsLevel(Rounds(leaves)[k + 1], (m + 1) \div 2)
    BY <2>1, ParentIsLevel, RoundsRecursion
  <2>3. Len(Rounds(leaves)[k + 1]) = (m + 1) \div 2
    BY <2>2, LevelIsSeq
  <2>4. (m + 1) \div 2 \in Nat \ {0}
    BY <2>1
  <2> QED BY <2>2, <2>3, <2>4 DEF LenAt, m
<1>3. T = Nat
  <2> HIDE DEF Fine
  <2>1. T \in SUBSET Nat /\ 0 \in T /\ \A k \in T : k + 1 \in T
    BY <1>1, <1>2
  <2> HIDE DEF T
  <2> QED BY <2>1, SetInduction
<1>4. \A k \in Nat : Fine(k)
  BY <1>3
<1> QED BY <1>1, <1>2, <1>4

\* The loop ends, with one node.
LEMMA HeightEnds ==
  ASSUME NEW leaves, NEW n \in Nat \ {0}, IsLevel(leaves, n)
  PROVE  /\ Height(leaves) \in Nat
         /\ LenAt(leaves, Height(leaves)) = 1
         /\ \A k \in Nat : k < Height(leaves) => LenAt(leaves, k) > 1
<1> DEFINE L(k) == LenAt(leaves, k)
           Ended == { k \in Nat : L(k) <= 1 }
           T == { k \in Nat : L(k) + k <= n \/ \E j \in 0..k : L(j) <= 1 }
<1>1. /\ L(0) = n
      /\ \A k \in Nat : L(k) \in Nat \ {0} /\ L(k + 1) = (L(k) + 1) \div 2
  BY RoundsAreLevels, Zenon
<1> HIDE DEF L
<1>2. T = Nat
  <2>1. T \in SUBSET Nat /\ 0 \in T
    BY <1>1
  <2>2. ASSUME NEW k \in T PROVE k + 1 \in T
    <3>1. CASE \E j \in 0..k : L(j) <= 1
      BY <3>1
    <3>2. CASE L(k) + k <= n
      BY <3>2, <1>1
    <3> QED BY <3>1, <3>2
  <2> HIDE DEF T
  <2> QED BY <2>1, <2>2, SetInduction
<1>3. PICK j \in 0..n : L(j) <= 1
  <2>1. n \in T
    BY <1>2
  <2> QED BY <2>1, <1>1
<1>4. PICK h \in Ended : \A m \in Ended : h <= m
  <2>1. Ended \in SUBSET Nat /\ Ended # {}
    BY <1>3
  <2> HIDE DEF Ended
  <2> QED BY <2>1, Least
<1>5. h \in 0..n /\ L(h) <= 1 /\ \A k \in 0..n : k < h => L(k) > 1
  BY <1>1, <1>3, <1>4
<1>6. Len(leaves) = n
  BY LevelIsSeq
<1> DEFINE H == Height(leaves)
<1> DEFINE Top(x) == L(x) <= 1 /\ \A k \in 0..n : k < x => L(k) > 1
<1>7. H \in 0..n /\ Top(H)
  <2>1. H = CHOOSE x \in 0..n : Top(x)
    BY <1>6 DEF Height, L, LenAt
  <2>2. \E x \in 0..n : Top(x)
    BY <1>5
  <2> HIDE DEF Top, H
  <2> QED BY <2>1, <2>2
<1> HIDE DEF H
<1>8. H \in Nat /\ L(H) = 1 /\ \A k \in Nat : k < H => L(k) > 1
  <2>1. H \in Nat /\ H <= n /\ L(H) <= 1 /\ \A k \in 0..n : k < H => L(k) > 1
    BY <1>7
  <2>2. L(H) \in Nat \ {0}
    BY <1>1, <2>1
  <2> QED BY <2>1, <2>2
<1> QED BY <1>8 DEF H, L

\* The position of an entry, halved in each round, stays within its level.
LEMMA PositionInLevel ==
  ASSUME NEW leaves, NEW n \in Nat \ {0}, IsLevel(leaves, n), NEW i \in 1..n
  PROVE  /\ PositionOf(i)[0] = i
         /\ \A k \in Nat :
              /\ PositionOf(i)[k] \in 1..LenAt(leaves, k)
              /\ PositionOf(i)[k + 1] = (PositionOf(i)[k] + 1) \div 2
<1> DEFINE L(k) == LenAt(leaves, k)
           P(k) == PositionOf(i)[k]
           T == { k \in Nat : P(k) \in 1..L(k) }
<1>1. /\ L(0) = n
      /\ \A k \in Nat : L(k) \in Nat \ {0} /\ L(k + 1) = (L(k) + 1) \div 2
  BY RoundsAreLevels, Zenon
<1>2. P(0) = i /\ \A k \in Nat : P(k + 1) = (P(k) + 1) \div 2
  BY PositionRecursion
<1> HIDE DEF L, P
<1>3. 0 \in T
  BY <1>1, <1>2
<1>4. ASSUME NEW k \in T PROVE k + 1 \in T
  <2>1. k \in Nat /\ P(k) \in Nat /\ L(k) \in Nat /\ 1 <= P(k) /\ P(k) <= L(k)
    BY <1>1
  <2>2. P(k + 1) = (P(k) + 1) \div 2 /\ L(k + 1) = (L(k) + 1) \div 2
    BY <1>1, <1>2
  <2>3. (P(k) + 1) \div 2 \in 1..((L(k) + 1) \div 2)
    BY <2>1
  <2> QED BY <2>1, <2>2, <2>3
<1>5. T = Nat
  <2>1. T \in SUBSET Nat
    OBVIOUS
  <2> HIDE DEF T
  <2> QED BY <1>3, <1>4, <2>1, SetInduction
<1>6. P(0) = i /\ \A k \in Nat : P(k) \in 1..L(k) /\ P(k + 1) = (P(k) + 1) \div 2
  BY <1>2, <1>5
<1> QED BY <1>6 DEF P, L

\* A node joined with its sibling is their parent.
JoinOne(sibling, digest) ==
  IF sibling.side = "L" THEN NodeDigest(sibling.digest, digest) ELSE NodeDigest(digest, sibling.digest)

\* ... whatever side the sibling is on, and for the odd last node too.
LEMMA SiblingsMeet ==
  ASSUME NEW l, NEW n \in Nat \ {0}, IsLevel(l, n), NEW i \in 1..n
  PROVE  JoinOne(SiblingOf(l, i), l[i]) = ParentLevel(l)[(i + 1) \div 2]
<1>1. Len(l) = n
  BY LevelIsSeq
<1>2. PICK q : q = (i + 1) \div 2
  OBVIOUS
<1>3. q \in 1..((n + 1) \div 2)
  BY <1>2
<1>4. ParentLevel(l)[q] = NodeDigest(l[2 * q - 1], IF 2 * q <= n THEN l[2 * q] ELSE l[2 * q - 1])
  BY <1>3, ParentIsLevel
<1>5. CASE i % 2 = 1
  <2>1. 2 * q - 1 = i /\ 2 * q = i + 1
    BY <1>2, <1>5
  <2>2. SiblingOf(l, i) = [side |-> "R", digest |-> IF i + 1 <= n THEN l[i + 1] ELSE l[i]]
    BY <1>1, <1>5 DEF SiblingOf
  <2> QED BY <1>2, <1>4, <2>1, <2>2 DEF JoinOne
<1>6. CASE i % 2 # 1
  <2>1. 2 * q = i /\ 2 * q - 1 = i - 1 /\ i <= n
    BY <1>2, <1>6
  <2>2. SiblingOf(l, i) = [side |-> "L", digest |-> l[i - 1]]
    BY <1>6 DEF SiblingOf
  <2> QED BY <1>2, <1>4, <2>1, <2>2 DEF JoinOne
<1> QED BY <1>5, <1>6

\* The siblings of position i in the first k levels.
Path(leaves, i, k) == [j \in 1..k |-> SiblingOf(Rounds(leaves)[j - 1], PositionOf(i)[j - 1])]

\* A path is a sequence of k siblings.
LEMMA PathIsLevel ==
  ASSUME NEW leaves, NEW i, NEW k \in Nat
  PROVE  IsLevel(Path(leaves, i, k), k)
BY DEF Path, IsLevel

\* One round up, the node above an entry is the join of the one below.
LEMMA OneUp ==
  ASSUME NEW leaves, NEW n \in Nat \ {0}, IsLevel(leaves, n), NEW i \in 1..n, NEW k \in Nat
  PROVE  Rounds(leaves)[k + 1][PositionOf(i)[k + 1]]
           = JoinOne(SiblingOf(Rounds(leaves)[k], PositionOf(i)[k]), Rounds(leaves)[k][PositionOf(i)[k]])
<1>1. PICK l, m, p : l = Rounds(leaves)[k] /\ m = LenAt(leaves, k) /\ p = PositionOf(i)[k]
  OBVIOUS
<1>2. m \in Nat \ {0} /\ IsLevel(l, m)
  BY <1>1, RoundsAreLevels
<1>3. p \in 1..m /\ PositionOf(i)[k + 1] = (p + 1) \div 2
  BY <1>1, PositionInLevel
<1>4. Rounds(leaves)[k + 1] = ParentLevel(l)
  BY <1>1, RoundsRecursion
<1>5. JoinOne(SiblingOf(l, p), l[p]) = ParentLevel(l)[(p + 1) \div 2]
  BY <1>2, <1>3, SiblingsMeet
<1> QED BY <1>1, <1>3, <1>4, <1>5

\* verify_inclusion goes up the tree.
LEMMA JoinedClimbs ==
  ASSUME NEW leaves, NEW n \in Nat \ {0}, IsLevel(leaves, n), NEW i \in 1..n, NEW h \in Nat
  PROVE  Joined(leaves[i], Path(leaves, i, h))[h] = Rounds(leaves)[h][PositionOf(i)[h]]
<1> DEFINE N(k) == Rounds(leaves)[k][PositionOf(i)[k]]
           sib(k) == SiblingOf(Rounds(leaves)[k - 1], PositionOf(i)[k - 1])
           siblings == Path(leaves, i, h)
           Runs(g) == g = [k \in 0..h |-> IF k = 0 THEN leaves[i] ELSE JoinOne(siblings[k], g[k - 1])]
           cur == Joined(leaves[i], siblings)
<1>1. N(0) = leaves[i]
  BY RoundsRecursion, PositionRecursion
<1>2. Len(siblings) = h /\ \A k \in 1..h : siblings[k] = sib(k)
  BY PathIsLevel, LevelIsSeq DEF Path
<1>3. \A k \in 1..h : N(k) = JoinOne(siblings[k], N(k - 1))
  <2>1. SUFFICES ASSUME NEW k \in 1..h PROVE N(k) = JoinOne(siblings[k], N(k - 1))
    OBVIOUS
  <2>2. PICK m \in Nat : k = m + 1 /\ k - 1 = m
    OBVIOUS
  <2> DEFINE here == SiblingOf(Rounds(leaves)[m], PositionOf(i)[m])
  <2>3. N(m + 1) = JoinOne(here, N(m))
    BY OneUp
  <2>4. sib(k) = here
    BY <2>2
  <2> HIDE DEF N, sib, here, siblings
  <2> QED BY <1>2, <2>2, <2>3, <2>4
<1> HIDE DEF N, sib, siblings
<1>4. Runs([k \in 0..h |-> N(k)])
  <2> DEFINE g == [k \in 0..h |-> N(k)]
  <2>1. ASSUME NEW k \in 0..h PROVE N(k) = IF k = 0 THEN leaves[i] ELSE JoinOne(siblings[k], g[k - 1])
    <3>1. CASE k = 0
      BY <1>1, <3>1
    <3>2. CASE k # 0
      <4>1. k \in 1..h /\ k - 1 \in 0..h /\ g[k - 1] = N(k - 1)
        BY <3>2
      <4> HIDE DEF g
      <4> QED BY <1>3, <3>2, <4>1
    <3> QED BY <3>1, <3>2
  <2> QED BY <2>1
<1>5. Runs(cur)
  <2>1. cur = CHOOSE g : Runs(g)
    BY <1>2 DEF Joined, JoinOne
  <2> HIDE DEF Runs, cur
  <2> QED BY <1>4, <2>1
<1> HIDE DEF cur
<1> DEFINE T == { k \in Nat : k <= h => cur[k] = N(k) }
<1>6. 0 \in T
  BY <1>1, <1>5
<1>7. ASSUME NEW k \in T PROVE k + 1 \in T
  <2>1. SUFFICES ASSUME k + 1 <= h PROVE cur[k + 1] = N(k + 1)
    OBVIOUS
  <2>2. k \in Nat /\ k + 1 \in 0..h /\ k + 1 \in 1..h /\ k + 1 # 0 /\ (k + 1) - 1 = k /\ cur[k] = N(k)
    BY <2>1
  <2>3. cur[k + 1] = JoinOne(siblings[k + 1], cur[k])
    BY <1>5, <2>2
  <2>4. N(k + 1) = JoinOne(siblings[k + 1], N(k))
    BY <1>3, <2>2
  <2> QED BY <2>2, <2>3, <2>4
<1>8. T = Nat
  <2>1. T \in SUBSET Nat
    OBVIOUS
  <2> HIDE DEF T
  <2> QED BY <1>6, <1>7, <2>1, SetInduction
<1>9. cur[h] = N(h)
  BY <1>8
<1> QED BY <1>9 DEF cur, N, siblings

\* What Append makes, place by place.
LEMMA AppendMakes ==
  ASSUME NEW k, NEW p, NEW q, NEW x, IsLevel(p, k), IsLevel(q, k + 1),
         \A j \in 1..k : q[j] = p[j], q[k + 1] = x
  PROVE  Append(p, x) = q
<1> DEFINE W == { p[j] : j \in 1..k } \cup {x}
<1>1. k \in Nat /\ Len(p) = k
  BY LevelIsSeq
<1>2. p \in Seq(W) /\ x \in W
  <2>1. p \in Seq({ p[j] : j \in 1..k })
    BY LevelIsSeq
  <2>2. Seq({ p[j] : j \in 1..k }) \subseteq Seq(W)
    OBVIOUS
  <2> QED BY <2>1, <2>2
<1> HIDE DEF W
<1> DEFINE r == Append(p, x)
<1>3. r \in Seq(W) /\ Len(r) = k + 1 /\ (\A j \in 1..k : r[j] = p[j]) /\ r[k + 1] = x
  BY <1>1, <1>2, AppendProperties
<1> HIDE DEF r
<1>4. r = [j \in 1..(k + 1) |-> r[j]]
  BY <1>3
<1>5. \A j \in 1..(k + 1) : r[j] = q[j]
  BY <1>1, <1>3
<1>6. r = q
  BY <1>1, <1>4, <1>5 DEF IsLevel
<1> QED BY <1>6 DEF r

\* inclusion_proof finds the same siblings as inclusion_proofs.
LEMMA ClimbFindsPath ==
  ASSUME NEW leaves, NEW i, NEW h \in Nat
  PROVE  Climb(leaves, i)[h].siblings = Path(leaves, i, h)
<1> DEFINE state(k) == [level |-> Rounds(leaves)[k], i |-> PositionOf(i)[k], siblings |-> Path(leaves, i, k)]
           above(c) == [level |-> ParentLevel(c.level), i |-> (c.i + 1) \div 2,
                        siblings |-> Append(c.siblings, SiblingOf(c.level, c.i))]
           foot == [level |-> leaves, i |-> i, siblings |-> <<>>]
           Runs(g) == g = [k \in Nat |-> IF k = 0 THEN foot ELSE above(g[k - 1])]
           at == Climb(leaves, i)
<1>1. state(0) = foot
  <2>1. Path(leaves, i, 0) = <<>>
    BY DEF Path
  <2> QED BY <2>1, RoundsRecursion, PositionRecursion
<1>2. ASSUME NEW k \in Nat PROVE state(k + 1) = above(state(k))
  <2> DEFINE p == Path(leaves, i, k)
             x == SiblingOf(Rounds(leaves)[k], PositionOf(i)[k])
  <2>1. Path(leaves, i, k + 1) = Append(p, x)
    <3> DEFINE q == Path(leaves, i, k + 1)
    <3>1. IsLevel(p, k) /\ IsLevel(q, k + 1)
      BY PathIsLevel
    <3>2. (\A j \in 1..k : q[j] = p[j]) /\ q[k + 1] = x
      BY DEF Path
    <3> HIDE DEF p, q, x
    <3>3. Append(p, x) = q
      BY <3>1, <3>2, AppendMakes
    <3> QED BY <3>3 DEF q
  <2>2. Rounds(leaves)[k + 1] = ParentLevel(Rounds(leaves)[k])
    BY RoundsRecursion
  <2>3. PositionOf(i)[k + 1] = (PositionOf(i)[k] + 1) \div 2
    BY PositionRecursion
  <2> QED BY <2>1, <2>2, <2>3
<1> HIDE DEF state, above, foot
<1>3. Runs([k \in Nat |-> state(k)])
  <2> DEFINE g == [k \in Nat |-> state(k)]
  <2>1. ASSUME NEW k \in Nat PROVE state(k) = IF k = 0 THEN foot ELSE above(g[k - 1])
    <3>1. CASE k = 0
      BY <1>1, <3>1
    <3>2. CASE k # 0
      <4>1. k - 1 \in Nat /\ (k - 1) + 1 = k /\ g[k - 1] = state(k - 1)
        BY <3>2
      <4> HIDE DEF g
      <4> QED BY <1>2, <3>2, <4>1
    <3> QED BY <3>1, <3>2
  <2> QED BY <2>1
<1>4. Runs(at)
  <2>1. at = CHOOSE g : Runs(g)
    BY DEF Climb, above, foot
  <2> HIDE DEF Runs, at
  <2> QED BY <1>3, <2>1
<1> HIDE DEF at
<1> DEFINE T == { k \in Nat : at[k] = state(k) }
<1>5. 0 \in T
  BY <1>1, <1>4
<1>6. ASSUME NEW k \in T PROVE k + 1 \in T
  <2>1. k \in Nat /\ k + 1 \in Nat /\ k + 1 # 0 /\ (k + 1) - 1 = k /\ at[k] = state(k)
    OBVIOUS
  <2>2. at[k + 1] = above(at[k])
    BY <1>4, <2>1
  <2> QED BY <1>2, <2>1, <2>2
<1>7. T = Nat
  <2>1. T \in SUBSET Nat
    OBVIOUS
  <2> HIDE DEF T
  <2> QED BY <1>5, <1>6, <2>1, SetInduction
<1>8. at[h] = state(h)
  BY <1>7
<1> QED BY <1>8 DEF at, state

-----------------------------------------------------------------------------
\* The leaves of a log.
LEMMA LeavesAreLevel ==
  ASSUME NEW log \in Seq(Entry)
  PROVE  IsLevel(Leaves(log), Len(log)) /\ \A i \in 1..Len(log) : Leaves(log)[i] = LeafDigest(log[i])
BY DEF Leaves, IsLevel

\* A proof of an export: what it holds, that it verifies, and that the proof of the
\* endpoint is the same when the chain is intact.
LEMMA ExportOf ==
  ASSUME NEW log \in Seq(Entry), log # <<>>, NEW i \in 1..Len(log)
  PROVE  /\ VerifyInclusion(InclusionProofs(log)[i])
         /\ InclusionProofs(log)[i].root = MerkleRoot(Leaves(log))
         /\ VerifyChain(log) => InclusionProof(log, log[i].seq) = InclusionProofs(log)[i]
<1> DEFINE leaves == Leaves(log)
           n == Len(log)
           h == Height(leaves)
           proof == InclusionProofs(log)[i]
<1>1. n \in Nat \ {0} /\ IsLevel(leaves, n) /\ leaves[i] = LeafDigest(log[i])
  BY LeavesAreLevel
<1>2. h \in Nat /\ LenAt(leaves, h) = 1
  BY <1>1, HeightEnds
<1>3. PositionOf(i)[h] = 1
  <2>1. PositionOf(i)[h] \in 1..1
    BY <1>1, <1>2, PositionInLevel
  <2> QED BY <2>1
<1>4. Len(Levels(leaves)) = h + 1
  <2>1. IsLevel(Levels(leaves), h + 1)
    BY <1>2 DEF Levels, IsLevel
  <2> QED BY <2>1, LevelIsSeq
<1>5. proof = [seq |-> log[i].seq, leaf |-> leaves[i], siblings |-> Path(leaves, i, h),
               root |-> MerkleRoot(leaves)]
  <2> DEFINE levels == Levels(leaves)
  <2>1. (h + 1) - 1 = h /\ h + 1 \in 1..(h + 1)
    BY <1>2
  <2>2. levels[h + 1][1] = MerkleRoot(leaves)
    BY <2>1 DEF Levels, MerkleRoot
  <2>3. [k \in 1..h |-> SiblingOf(levels[k], PositionOf(i)[k - 1])] = Path(leaves, i, h)
    <3>1. \A k \in 1..h : levels[k] = Rounds(leaves)[k - 1]
      BY <1>2 DEF Levels
    <3> HIDE DEF levels
    <3> QED BY <3>1 DEF Path
  <2>4. proof = [seq |-> log[i].seq, leaf |-> LeafDigest(log[i]),
                 siblings |-> [k \in 1..(Len(levels) - 1) |-> SiblingOf(levels[k], PositionOf(i)[k - 1])],
                 root |-> levels[Len(levels)][1]]
    BY DEF InclusionProofs
  <2> HIDE DEF levels, proof, h
  <2> QED BY <1>1, <1>4, <2>1, <2>2, <2>3, <2>4 DEF levels
<1> HIDE DEF proof
<1>6. VerifyInclusion(proof)
  <2>1. Joined(leaves[i], Path(leaves, i, h))[h] = Rounds(leaves)[h][PositionOf(i)[h]]
    BY <1>1, <1>2, JoinedClimbs
  <2>2. Len(Path(leaves, i, h)) = h
    BY <1>2, PathIsLevel, LevelIsSeq
  <2> QED BY <1>3, <1>5, <2>1, <2>2 DEF VerifyInclusion, MerkleRoot
<1>7. ASSUME VerifyChain(log) PROVE InclusionProof(log, log[i].seq) = proof
  <2>1. IndexOf(log, log[i].seq) = i
    <3>1. \A j \in 1..Len(log) : log[j].seq = j
      BY <1>7 DEF VerifyChain
    <3> QED BY <3>1 DEF IndexOf
  <2>2. Climb(leaves, i)[h].siblings = Path(leaves, i, h)
    BY <1>2, ClimbFindsPath
  <2> QED BY <1>1, <1>5, <2>1, <2>2 DEF InclusionProof
<1> QED BY <1>5, <1>6, <1>7 DEF proof

-----------------------------------------------------------------------------
\* All the nodes of a level differ.
Simple(l, n) == \A i, j \in 1..n : l[i] = l[j] => i = j

\* Digests never collide, and a leaf is never a node.
LEMMA NodesDiffer ==
  /\ \A a, b, c, d : NodeDigest(a, b) = NodeDigest(c, d) => a = c /\ b = d
  /\ \A a, b, e : NodeDigest(a, b) # LeafDigest(e)
  /\ \A e, f : LeafDigest(e) = LeafDigest(f) => e.leaf = f.leaf
<1>1. \A a, b, c, d : NodeDigest(a, b) = NodeDigest(c, d) => a = c /\ b = d
  <2>1. SUFFICES ASSUME NEW a, NEW b, NEW c, NEW d, NodeDigest(a, b) = NodeDigest(c, d)
                 PROVE  a = c /\ b = d
    OBVIOUS
  <2>2. NodeDigest(a, b).children = <<a, b>> /\ NodeDigest(c, d).children = <<c, d>>
    BY DEF NodeDigest
  <2> QED BY <2>1, <2>2
<1>2. \A a, b, e : NodeDigest(a, b) # LeafDigest(e)
  <2>1. \A a, b, e : NodeDigest(a, b).children = <<a, b>> /\ LeafDigest(e).children = <<>>
    BY DEF NodeDigest, LeafDigest
  <2>2. \A a, b : <<a, b>> # <<>>
    OBVIOUS
  <2> QED BY <2>1, <2>2
<1>3. \A e, f : LeafDigest(e) = LeafDigest(f) => e.leaf = f.leaf
  <2>1. \A e : LeafDigest(e).leaf = e.leaf
    BY DEF LeafDigest
  <2> QED BY <2>1
<1> QED BY <1>1, <1>2, <1>3

\* ... then so do all the nodes of the level above.
LEMMA ParentSimple ==
  ASSUME NEW l, NEW n \in Nat \ {0}, IsLevel(l, n), Simple(l, n)
  PROVE  Simple(ParentLevel(l), (n + 1) \div 2)
<1>1. SUFFICES ASSUME NEW i \in 1..((n + 1) \div 2), NEW j \in 1..((n + 1) \div 2),
                      ParentLevel(l)[i] = ParentLevel(l)[j]
               PROVE  i = j
  BY DEF Simple
<1>2. l[2 * i - 1] = l[2 * j - 1]
  <2>1. PICK x, y : x = l[2 * i - 1] /\ y = l[2 * j - 1]
    OBVIOUS
  <2>2. PICK c : ParentLevel(l)[i] = NodeDigest(x, c)
    <3>1. ParentLevel(l)[i]
            = NodeDigest(l[2 * i - 1], IF 2 * i <= n THEN l[2 * i] ELSE l[2 * i - 1])
      BY ParentIsLevel
    <3> QED BY <2>1, <3>1, Zenon
  <2>3. PICK d : ParentLevel(l)[j] = NodeDigest(y, d)
    <3>1. ParentLevel(l)[j]
            = NodeDigest(l[2 * j - 1], IF 2 * j <= n THEN l[2 * j] ELSE l[2 * j - 1])
      BY ParentIsLevel
    <3> QED BY <2>1, <3>1, Zenon
  <2>4. NodeDigest(x, c) = NodeDigest(y, d)
    BY <1>1, <2>2, <2>3
  <2>5. x = y
    BY <2>4, NodesDiffer
  <2> QED BY <2>1, <2>5
<1>3. 2 * i - 1 \in 1..n /\ 2 * j - 1 \in 1..n
  OBVIOUS
<1>4. 2 * i - 1 = 2 * j - 1
  BY <1>2, <1>3 DEF Simple
<1> QED BY <1>4

\* Two levels whose nodes differ have different parents.
LEMMA ParentPins ==
  ASSUME NEW a, NEW m \in Nat \ {0}, IsLevel(a, m), Simple(a, m),
         NEW b, NEW n \in Nat \ {0}, IsLevel(b, n), Simple(b, n),
         ParentLevel(a) = ParentLevel(b)
  PROVE  m = n /\ a = b
<1> DEFINE p == (m + 1) \div 2
           q == (n + 1) \div 2
           A(i) == IF 2 * i <= m THEN a[2 * i] ELSE a[2 * i - 1]
           B(i) == IF 2 * i <= n THEN b[2 * i] ELSE b[2 * i - 1]
<1>1. p = q
  <2>1. Len(ParentLevel(a)) = p /\ Len(ParentLevel(b)) = q
    BY ParentIsLevel, LevelIsSeq
  <2> QED BY <2>1
<1>2. \A i \in 1..p : a[2 * i - 1] = b[2 * i - 1] /\ A(i) = B(i)
  <2>1. SUFFICES ASSUME NEW i \in 1..p PROVE a[2 * i - 1] = b[2 * i - 1] /\ A(i) = B(i)
    OBVIOUS
  <2>2. ParentLevel(a)[i] = NodeDigest(a[2 * i - 1], A(i))
    BY ParentIsLevel
  <2>3. ParentLevel(b)[i] = NodeDigest(b[2 * i - 1], B(i))
    BY <1>1, ParentIsLevel
  <2> HIDE DEF A, B
  <2> QED BY <2>2, <2>3, NodesDiffer
<1>3. m <= 2 * p /\ 2 * p <= m + 1 /\ n <= 2 * p /\ 2 * p <= n + 1 /\ p \in 1..p
  BY <1>1
<1>4. m = n
  <2>1. CASE m < n
    <3>1. m + 1 = n /\ n = 2 * p
      BY <1>3, <2>1
    <3>2. A(p) = a[2 * p - 1] /\ B(p) = b[2 * p]
      BY <3>1
    <3>3. b[2 * p - 1] = b[2 * p]
      BY <1>2, <1>3, <3>2
    <3> QED BY <1>3, <3>1, <3>3 DEF Simple
  <2>2. CASE n < m
    <3>1. n + 1 = m /\ m = 2 * p
      BY <1>3, <2>2
    <3>2. B(p) = b[2 * p - 1] /\ A(p) = a[2 * p]
      BY <3>1
    <3>3. a[2 * p - 1] = a[2 * p]
      BY <1>2, <1>3, <3>2
    <3> QED BY <1>3, <3>1, <3>3 DEF Simple
  <2> QED BY <2>1, <2>2
<1>5. \A k \in 1..m : a[k] = b[k]
  <2>1. SUFFICES ASSUME NEW k \in 1..m PROVE a[k] = b[k]
    OBVIOUS
  <2>2. PICK i : i = (k + 1) \div 2
    OBVIOUS
  <2>3. i \in 1..p
    BY <2>2
  <2>4. CASE k = 2 * i - 1
    BY <1>2, <2>3, <2>4
  <2>5. CASE k = 2 * i
    BY <1>2, <1>4, <2>3, <2>5
  <2>6. k = 2 * i - 1 \/ k = 2 * i
    BY <2>2
  <2> QED BY <2>4, <2>5, <2>6
<1> QED BY <1>4, <1>5 DEF IsLevel

\* Where the leaves differ, so do the nodes of every level.
LEMMA RoundsSimple ==
  ASSUME NEW leaves, NEW n \in Nat \ {0}, IsLevel(leaves, n), Simple(leaves, n)
  PROVE  \A k \in Nat : Simple(Rounds(leaves)[k], LenAt(leaves, k))
<1> DEFINE T == { k \in Nat : Simple(Rounds(leaves)[k], LenAt(leaves, k)) }
<1>1. 0 \in T
  BY RoundsRecursion, RoundsAreLevels
<1>2. ASSUME NEW k \in T PROVE k + 1 \in T
  <2>1. PICK l, m : l = Rounds(leaves)[k] /\ m = LenAt(leaves, k)
    OBVIOUS
  <2>2. m \in Nat \ {0} /\ IsLevel(l, m) /\ Simple(l, m) /\ k \in Nat
    BY <2>1, RoundsAreLevels
  <2>3. Simple(ParentLevel(l), (m + 1) \div 2)
    BY <2>2, ParentSimple
  <2>4. Rounds(leaves)[k + 1] = ParentLevel(l) /\ LenAt(leaves, k + 1) = (m + 1) \div 2
    BY <2>1, <2>2, RoundsRecursion, RoundsAreLevels
  <2> QED BY <2>2, <2>3, <2>4
<1>3. T = Nat
  <2>1. T \in SUBSET Nat
    OBVIOUS
  <2> HIDE DEF T
  <2> QED BY <1>1, <1>2, <2>1, SetInduction
<1> QED BY <1>3

\* If level k of one tree is level k + d of another, then the leaves of the one are level
\* d of the other: a level determines the one below it.
LEMMA RoundsPin ==
  ASSUME NEW a, NEW m \in Nat \ {0}, IsLevel(a, m), Simple(a, m),
         NEW b, NEW n \in Nat \ {0}, IsLevel(b, n), Simple(b, n)
  PROVE  \A k, d \in Nat : Rounds(a)[k] = Rounds(b)[k + d] => a = Rounds(b)[d]
<1>1. SUFFICES ASSUME NEW d \in Nat
               PROVE  \A k \in Nat : Rounds(a)[k] = Rounds(b)[k + d] => a = Rounds(b)[d]
  OBVIOUS
<1> DEFINE T == { k \in Nat : Rounds(a)[k] = Rounds(b)[k + d] => a = Rounds(b)[d] }
<1>2. 0 \in T
  BY RoundsRecursion
<1>3. ASSUME NEW k \in T PROVE k + 1 \in T
  <2>1. SUFFICES ASSUME Rounds(a)[k + 1] = Rounds(b)[(k + 1) + d]
                 PROVE  Rounds(a)[k] = Rounds(b)[k + d]
    OBVIOUS
  <2>2. PICK j \in Nat : j = k + d /\ (k + 1) + d = j + 1
    OBVIOUS
  <2>3. PICK u, x : u = Rounds(a)[k] /\ x = LenAt(a, k)
    OBVIOUS
  <2>4. PICK v, y : v = Rounds(b)[j] /\ y = LenAt(b, j)
    OBVIOUS
  <2>5. x \in Nat \ {0} /\ IsLevel(u, x) /\ Simple(u, x)
    BY <2>3, RoundsAreLevels, RoundsSimple
  <2>6. y \in Nat \ {0} /\ IsLevel(v, y) /\ Simple(v, y)
    BY <2>4, RoundsAreLevels, RoundsSimple
  <2>7. ParentLevel(u) = ParentLevel(v)
    BY <2>1, <2>2, <2>3, <2>4, RoundsRecursion
  <2>8. u = v
    BY <2>5, <2>6, <2>7, ParentPins
  <2> QED BY <2>2, <2>3, <2>4, <2>8
<1>4. T = Nat
  <2>1. T \in SUBSET Nat
    OBVIOUS
  <2> HIDE DEF T
  <2> QED BY <1>2, <1>3, <2>1, SetInduction
<1> QED BY <1>4

\* The leaves of n entries that differ.
LeafLevel(a, n) ==
  n \in Nat \ {0} /\ IsLevel(a, n) /\ Simple(a, n) /\ \A i \in 1..n : \E e : a[i] = LeafDigest(e)

\* One root, one list of leaves.
LEMMA RootPinsLeaves ==
  ASSUME NEW a, NEW m, LeafLevel(a, m), NEW b, NEW n, LeafLevel(b, n),
         Height(a) <= Height(b), MerkleRoot(a) = MerkleRoot(b)
  PROVE  a = b
<1>0. /\ m \in Nat \ {0} /\ IsLevel(a, m) /\ Simple(a, m) /\ \A i \in 1..m : \E e : a[i] = LeafDigest(e)
      /\ n \in Nat \ {0} /\ IsLevel(b, n) /\ Simple(b, n)
  BY DEF LeafLevel
<1>1. PICK h, g : h = Height(a) /\ g = Height(b)
  OBVIOUS
<1>2. h \in Nat /\ LenAt(a, h) = 1 /\ g \in Nat /\ LenAt(b, g) = 1
  BY <1>0, <1>1, HeightEnds
<1>3. Rounds(a)[h] = Rounds(b)[g]
  <2>1. IsLevel(Rounds(a)[h], 1) /\ IsLevel(Rounds(b)[g], 1)
    <3>1. IsLevel(Rounds(a)[h], LenAt(a, h))
      BY <1>0, <1>2, RoundsAreLevels
    <3>2. IsLevel(Rounds(b)[g], LenAt(b, g))
      BY <1>0, <1>2, RoundsAreLevels
    <3> QED BY <1>2, <3>1, <3>2
  <2>2. Rounds(a)[h][1] = Rounds(b)[g][1]
    BY <1>1 DEF MerkleRoot
  <2> QED BY <2>1, <2>2 DEF IsLevel
<1>4. PICK d \in Nat : g = h + d
  <2>1. g - h \in Nat /\ g = h + (g - h)
    BY <1>1, <1>2
  <2> QED BY <2>1
<1>5. a = Rounds(b)[d]
  BY <1>0, <1>2, <1>3, <1>4, RoundsPin
<1>6. d = 0
  <2>1. SUFFICES ASSUME d # 0 PROVE FALSE
    OBVIOUS
  <2>2. PICK j \in Nat : d = j + 1
    <3>1. d - 1 \in Nat /\ d = (d - 1) + 1
      BY <2>1
    <3> QED BY <3>1
  <2>3. PICK l, x : l = Rounds(b)[j] /\ x = LenAt(b, j)
    OBVIOUS
  <2>4. x \in Nat \ {0} /\ IsLevel(l, x)
    BY <1>0, <2>3, RoundsAreLevels
  <2>5. a = ParentLevel(l)
    BY <1>5, <2>2, <2>3, RoundsRecursion
  <2>6. 1 \in 1..((x + 1) \div 2) /\ 1 \in 1..m
    BY <1>0, <2>4
  <2>7. a[1] = NodeDigest(l[2 * 1 - 1], IF 2 * 1 <= x THEN l[2 * 1] ELSE l[2 * 1 - 1])
    BY <2>4, <2>5, <2>6, ParentIsLevel
  <2>8. PICK e : a[1] = LeafDigest(e)
    BY <1>0, <2>6
  <2> QED BY <2>7, <2>8, NodesDiffer
<1> QED BY <1>5, <1>6, RoundsRecursion

\* The entries of a log differ in their leaf hashes.
LeavesApart(log) == \A i, j \in 1..Len(log) : log[i].leaf = log[j].leaf => i = j

\* The leaves of a prefix of such a log.
LEMMA PrefixLeaves ==
  ASSUME NEW log \in Seq(Entry), LeavesApart(log), NEW m \in 1..Len(log)
  PROVE  LET a == Leaves(SubSeq(log, 1, m))
         IN  IsLevel(a, m) /\ Simple(a, m) /\ \A i \in 1..m : a[i] = LeafDigest(log[i])
<1> DEFINE s == SubSeq(log, 1, m)
           a == Leaves(s)
<1>1. s \in Seq(Entry) /\ Len(s) = m /\ \A i \in 1..m : s[i] = log[i]
  OBVIOUS
<1> HIDE DEF s
<1>2. IsLevel(a, m) /\ \A i \in 1..m : a[i] = LeafDigest(log[i])
  BY <1>1, LeavesAreLevel
<1> HIDE DEF a
<1>3. Simple(a, m)
  <2>1. SUFFICES ASSUME NEW i \in 1..m, NEW j \in 1..m, a[i] = a[j] PROVE i = j
    BY DEF Simple
  <2>2. log[i].leaf = log[j].leaf
    BY <1>2, <2>1, NodesDiffer
  <2>3. i \in 1..Len(log) /\ j \in 1..Len(log)
    OBVIOUS
  <2> QED BY <2>2, <2>3 DEF LeavesApart
<1> QED BY <1>2, <1>3 DEF a, s

LEMMA RootPins ==
  ASSUME TypeOK, LeavesApart(mem)
  PROVE  RootPinsHistory
<1> DEFINE A(m) == Leaves(SubSeq(mem, 1, m))
<1>1. SUFFICES ASSUME NEW m \in 1..Len(mem), NEW n \in 1..Len(mem), MerkleRoot(A(m)) = MerkleRoot(A(n))
               PROVE  m = n
  BY DEF RootPinsHistory
<1>2. /\ IsLevel(A(m), m) /\ Simple(A(m), m) /\ \A i \in 1..m : A(m)[i] = LeafDigest(mem[i])
      /\ IsLevel(A(n), n) /\ Simple(A(n), n) /\ \A i \in 1..n : A(n)[i] = LeafDigest(mem[i])
  BY PrefixLeaves DEF TypeOK
<1>3. m \in Nat \ {0} /\ n \in Nat \ {0}
  BY DEF TypeOK
<1>4. PICK a, b : a = A(m) /\ b = A(n)
  OBVIOUS
<1> HIDE DEF A
<1>5. LeafLevel(a, m) /\ LeafLevel(b, n)
  BY <1>2, <1>3, <1>4 DEF LeafLevel
<1>6. Height(a) \in Nat /\ Height(b) \in Nat /\ Len(a) = m /\ Len(b) = n
  BY <1>3, <1>5, HeightEnds, LevelIsSeq DEF LeafLevel
<1>7. MerkleRoot(a) = MerkleRoot(b)
  BY <1>1, <1>4
<1>8. CASE Height(a) <= Height(b)
  <2>1. a = b
    BY <1>5, <1>7, <1>8, RootPinsLeaves
  <2> QED BY <1>6, <2>1
<1>9. CASE Height(b) <= Height(a)
  <2>1. b = a
    BY <1>5, <1>7, <1>9, RootPinsLeaves
  <2> QED BY <1>6, <2>1
<1> QED BY <1>6, <1>8, <1>9

-----------------------------------------------------------------------------
(***************************************************************************)
(* Every event is in the ledger once, so its leaves differ.                *)
(***************************************************************************)

\* An entry ends its own leaf hash, and is one of the events so far.
Stamped(e, n) == Len(e.leaf) > 0 /\ e.leaf[Len(e.leaf)] = <<e.seq, e.event>> /\ e.event <= n

\* The entries of a log are of different events.
Apart(log, n) ==
  /\ \A i \in 1..Len(log) : Stamped(log[i], n)
  /\ \A i, j \in 1..Len(log) : log[i].event = log[j].event => i = j

\* The event of e is none of the log's.
NewTo(e, log) == \A i \in 1..Len(log) : log[i].event # e.event

\* The handlers whose entry is still to be written.
Unwritten == { t \in Threads : pc[t] \in {"line", "truncate"} }

\* Every event is in the log at most once and in the file at most once, whatever is cut
\* off or fails on the way; a handler still writes an entry that the file has not got.
HistoryInv ==
  /\ TypeOK
  /\ Apart(mem, spent["event"]) /\ Apart(whole, spent["event"]) /\ Apart(tail, spent["event"])
  /\ \A i \in 1..Len(tail) : NewTo(tail[i], whole)
  /\ \A t \in Unwritten :
       /\ Stamped(job[t], spent["event"])
       /\ NewTo(job[t], whole) /\ NewTo(job[t], tail)
  /\ \A t, u \in Unwritten : job[t].event = job[u].event => t = u

\* With more events, what was of the events so far still is.
LEMMA ApartLater ==
  ASSUME NEW log \in Seq(Entry), NEW n \in Nat, NEW m \in Nat, n <= m
  PROVE  /\ Apart(log, n) => Apart(log, m)
         /\ \A e \in Entry : Stamped(e, n) => Stamped(e, m)
<1>1. ASSUME NEW e \in Entry, Stamped(e, n) PROVE Stamped(e, m)
  <2>1. e.event \in Nat
    BY DEF Entry
  <2> QED BY <1>1, <2>1 DEF Stamped
<1>2. \A i \in 1..Len(log) : log[i] \in Entry
  OBVIOUS
<1> QED BY <1>1, <1>2 DEF Apart

\* An entry of a new event keeps a log apart.
LEMMA AppendApart ==
  ASSUME NEW log \in Seq(Entry), NEW n \in Nat, Apart(log, n),
         NEW e \in Entry, Stamped(e, n), NewTo(e, log)
  PROVE  Apart(Append(log, e), n)
<1>1. /\ Len(Append(log, e)) = Len(log) + 1
      /\ \A i \in 1..Len(log) : Append(log, e)[i] = log[i]
      /\ Append(log, e)[Len(log) + 1] = e
  BY AppendProperties
<1> DEFINE r == Append(log, e)
<1> HIDE DEF r
<1>2. /\ Len(r) = Len(log) + 1 /\ Len(log) \in Nat
      /\ \A i \in 1..Len(log) : r[i] = log[i]
      /\ r[Len(log) + 1] = e
  BY <1>1 DEF r
<1>3. \A i \in 1..Len(r) : i \in 1..Len(log) \/ i = Len(log) + 1
  BY <1>2
<1>4. Apart(r, n)
  <2>1. \A i \in 1..Len(r) : Stamped(r[i], n)
    BY <1>2, <1>3 DEF Apart
  <2>2. ASSUME NEW i \in 1..Len(r), NEW j \in 1..Len(r), r[i].event = r[j].event PROVE i = j
    <3>1. CASE i = Len(log) + 1 /\ j = Len(log) + 1
      BY <3>1
    <3>2. CASE i \in 1..Len(log) /\ j \in 1..Len(log)
      BY <1>2, <2>2, <3>2 DEF Apart
    <3>3. CASE i \in 1..Len(log) /\ j = Len(log) + 1
      BY <1>2, <2>2, <3>3 DEF NewTo
    <3>4. CASE i = Len(log) + 1 /\ j \in 1..Len(log)
      BY <1>2, <2>2, <3>4 DEF NewTo
    <3> QED BY <1>3, <3>1, <3>2, <3>3, <3>4
  <2> QED BY <2>1, <2>2 DEF Apart
<1> QED BY <1>4 DEF r

\* What is new to a log and not e is new to the log with e.
LEMMA AppendNewTo ==
  ASSUME NEW log \in Seq(Entry), NEW e \in Entry, NEW x, NewTo(x, log), x.event # e.event
  PROVE  NewTo(x, Append(log, e))
<1>1. /\ Len(Append(log, e)) = Len(log) + 1
      /\ \A i \in 1..Len(log) : Append(log, e)[i] = log[i]
      /\ Append(log, e)[Len(log) + 1] = e
  BY AppendProperties
<1> QED BY <1>1 DEF NewTo

\* AuditLog::append stamps its entry.
LEMMA AppendStamps ==
  ASSUME NEW log \in Seq(Entry), NEW n \in Nat
  PROVE  NextEntry(log, n + 1) \in Entry /\ Stamped(NextEntry(log, n + 1), n + 1)
         /\ NextEntry(log, n + 1).event = n + 1
<1>1. NextEntry(log, n + 1) \in Entry
  BY NextEntryType
<1> DEFINE seq == Len(log) + 1
           prev == PrevLeaf(log, seq)
<1>2. NextEntry(log, n + 1) = [seq |-> seq, event |-> n + 1, leaf |-> Append(prev, <<seq, n + 1>>)]
  BY DEF NextEntry, LeafHash
<1>3. prev \in Seq(Nat \X Nat)
  <2>1. CASE Len(log) = 0
    BY <2>1 DEF PrevLeaf
  <2>2. CASE Len(log) # 0
    <3>1. log[Len(log)] \in Entry
      BY <2>2
    <3> QED BY <2>2, <3>1 DEF PrevLeaf, Entry
  <2> QED BY <2>1, <2>2
<1>4. seq \in Nat /\ <<seq, n + 1>> \in Nat \X Nat
  OBVIOUS
<1> HIDE DEF seq, prev
<1>5. Len(Append(prev, <<seq, n + 1>>)) = Len(prev) + 1 /\ Append(prev, <<seq, n + 1>>)[Len(prev) + 1] = <<seq, n + 1>>
  BY <1>3, <1>4, AppendProperties
<1> QED BY <1>1, <1>2, <1>3, <1>5 DEF Stamped

\* The file and the entry that ends it.
LEMMA LoadedApart ==
  ASSUME HistoryInv
  PROVE  /\ Apart(Loaded, spent["event"])
         /\ \A t \in Unwritten : NewTo(job[t], Loaded)
<1>1. whole \in Seq(Entry) /\ tail \in Seq(Entry) /\ spent["event"] \in Nat
  BY DEF HistoryInv, TypeOK, Occurrence
<1>2. CASE Len(tail) = 1
  <2>0. 1 \in 1..Len(tail)
    BY <1>2
  <2>1. tail[1] \in Entry /\ Stamped(tail[1], spent["event"]) /\ NewTo(tail[1], whole)
    BY <1>1, <2>0 DEF HistoryInv, Apart
  <2>2. Apart(Append(whole, tail[1]), spent["event"])
    BY <1>1, <2>1, AppendApart DEF HistoryInv
  <2>3. ASSUME NEW t \in Unwritten PROVE NewTo(job[t], Append(whole, tail[1]))
    <3>1. NewTo(job[t], whole) /\ job[t].event # tail[1].event
      BY <1>2 DEF HistoryInv, NewTo
    <3> QED BY <1>1, <2>1, <3>1, AppendNewTo
  <2> QED BY <1>2, <2>2, <2>3 DEF Loaded
<1>3. CASE Len(tail) # 1
  BY <1>3 DEF HistoryInv, Loaded
<1> QED BY <1>2, <1>3

\* The empty log is apart.
LEMMA NothingApart == \A n : Apart(<<>>, n) /\ \A e : NewTo(e, <<>>)
BY DEF Apart, NewTo

\* The server starts with an empty log and an empty file.
LEMMA HistoryInit == Init => HistoryInv
<1> SUFFICES ASSUME Init PROVE HistoryInv
  OBVIOUS
<1>1. Unwritten = {}
  BY DEF Unwritten, Init
<1> QED BY <1>1, TypeCorrectInit, NothingApart DEF Init, HistoryInv

\* No step of a handler, of a crash or of a reload makes two entries of one event.
LEMMA HistoryStep == HistoryInv /\ [Next]_vars => HistoryInv'
<1> SUFFICES ASSUME HistoryInv, [Next]_vars PROVE HistoryInv'
  OBVIOUS
<1>0. TypeOK' /\ TypeOK
  BY TypeCorrectStep DEF HistoryInv
<1>1. PICK n : n = spent["event"]
  OBVIOUS
<1>2. /\ n \in Nat
      /\ mem \in Seq(Entry) /\ whole \in Seq(Entry) /\ tail \in Seq(Entry)
      /\ \A t \in Threads : job[t] \in Entry
      /\ Unwritten \subseteq Threads
  BY <1>0, <1>1 DEF TypeOK, Occurrence, Unwritten
<1>3. /\ Apart(mem, n) /\ Apart(whole, n) /\ Apart(tail, n)
      /\ \A i \in 1..Len(tail) : NewTo(tail[i], whole)
      /\ \A t \in Unwritten : Stamped(job[t], n) /\ NewTo(job[t], whole) /\ NewTo(job[t], tail)
      /\ \A t, u \in Unwritten : job[t].event = job[u].event => t = u
  BY <1>1 DEF HistoryInv
<1>4. /\ Apart(mem, n + 1) /\ Apart(whole, n + 1) /\ Apart(tail, n + 1)
      /\ \A t \in Unwritten : Stamped(job[t], n + 1)
  <2>1. \A log \in Seq(Entry) : Apart(log, n) => Apart(log, n + 1)
    BY <1>2, ApartLater
  <2>2. \A e \in Entry : Stamped(e, n) => Stamped(e, n + 1)
    BY <1>2, EmptyLog, ApartLater
  <2> QED BY <1>2, <1>3, <2>1, <2>2
<1>5. ASSUME NEW e \in Entry, e.event = n + 1
      PROVE  /\ NewTo(e, mem) /\ NewTo(e, whole) /\ NewTo(e, tail)
             /\ \A t \in Unwritten : job[t].event # e.event
  <2>1. \A x \in Entry : Stamped(x, n) => x.event # n + 1
    BY <1>2 DEF Stamped, Entry
  <2>2. \A log \in Seq(Entry) : \A i \in 1..Len(log) : log[i] \in Entry
    OBVIOUS
  <2>3. ASSUME NEW log \in Seq(Entry), Apart(log, n) PROVE NewTo(e, log)
    BY <1>5, <2>1, <2>2, <2>3 DEF Apart, NewTo
  <2> QED BY <1>2, <1>3, <1>5, <2>1, <2>3
\* A handler starts with the entry e of a new event.
<1>6. ASSUME NEW t \in Threads, NEW e \in Entry, Stamped(e, n + 1), e.event = n + 1, job' = [job EXCEPT ![t] = e],
             spent'["event"] = n + 1, UNCHANGED <<whole, tail>>, Apart(mem', n + 1),
             Unwritten' \subseteq Unwritten \cup {t}
      PROVE  HistoryInv'
  <2>1. job'[t] = e /\ \A u \in Threads : u # t => job'[u] = job[u]
    BY <1>0, <1>6 DEF TypeOK
  <2>2. ASSUME NEW u \in Unwritten'
        PROVE  /\ Stamped(job'[u], n + 1) /\ NewTo(job'[u], whole) /\ NewTo(job'[u], tail)
               /\ u # t => u \in Unwritten /\ job'[u] = job[u]
    BY <1>2, <1>3, <1>4, <1>5, <1>6, <2>1
  <2>3. \A u, v \in Unwritten' : job'[u].event = job'[v].event => u = v
    BY <1>3, <1>5, <1>6, <2>1, <2>2
  <2> QED BY <1>0, <1>3, <1>4, <1>6, <2>2, <2>3 DEF HistoryInv
\* A step that begins nothing and leaves the file alone.
<1>7. ASSUME UNCHANGED <<whole, tail, job>>, spent'["event"] = n, Unwritten' \subseteq Unwritten, Apart(mem', n)
      PROVE  HistoryInv'
  BY <1>0, <1>3, <1>7 DEF HistoryInv
<1>8. ASSUME NEW t \in Threads, AppendInMemory(t) PROVE HistoryInv'
  <2>1. PICK e : e = NextEntry(mem, n + 1)
    OBVIOUS
  <2>2. e \in Entry /\ Stamped(e, n + 1) /\ e.event = n + 1
    BY <1>2, <2>1, AppendStamps
  <2>3. mem' = Append(mem, e) /\ job' = [job EXCEPT ![t] = e] /\ UNCHANGED <<whole, tail>>
        /\ pc' = [pc EXCEPT ![t] = "line"] /\ spent' = [spent EXCEPT !["event"] = @ + 1]
    BY <1>1, <1>8, <2>1 DEF AppendInMemory, Goto, Spend
  <2>4. Apart(mem', n + 1)
    BY <1>2, <1>4, <1>5, <2>2, <2>3, AppendApart
  <2>5. spent'["event"] = n + 1 /\ Unwritten' \subseteq Unwritten \cup {t}
    BY <1>0, <1>1, <2>3 DEF TypeOK, Occurrence, Unwritten
  <2> QED BY <1>6, <2>2, <2>3, <2>4, <2>5
<1>9. ASSUME NEW t \in Threads, WriteLine(t) PROVE HistoryInv'
  <2>1. PICK e : e = job[t]
    OBVIOUS
  <2>2. UNCHANGED <<mem, whole, job, spent>> /\ tail' = Append(tail, e) /\ pc[t] = "line"
        /\ pc' = [pc EXCEPT ![t] = "newline"]
    BY <1>9, <2>1 DEF WriteLine, Goto
  <2>3. t \in Unwritten /\ Unwritten' \subseteq Unwritten \ {t}
    BY <1>0, <2>2 DEF TypeOK, Unwritten
  <2>4. e \in Entry /\ Stamped(e, n) /\ NewTo(e, whole) /\ NewTo(e, tail)
    BY <1>2, <1>3, <2>1, <2>3
  <2>5. Apart(tail', n)
    BY <1>2, <1>3, <2>2, <2>4, AppendApart
  <2>6. \A i \in 1..Len(tail') : NewTo(tail'[i], whole)
    <3>1. \A i \in 1..Len(tail') : (i \in 1..Len(tail) /\ tail'[i] = tail[i]) \/ tail'[i] = e
      BY <1>2, <2>2, <2>4
    <3> QED BY <1>3, <2>4, <3>1
  <2>7. ASSUME NEW u \in Unwritten' PROVE NewTo(job[u], tail')
    <3>1. NewTo(job[u], tail) /\ job[u].event # e.event
      BY <1>3, <2>1, <2>3
    <3> QED BY <1>2, <2>2, <2>4, <3>1, AppendNewTo
  <2> QED BY <1>0, <1>1, <1>3, <2>2, <2>3, <2>5, <2>6, <2>7 DEF HistoryInv
<1>10. ASSUME NEW t \in Threads, WriteNewline(t) PROVE HistoryInv'
  <2>1. UNCHANGED <<mem, job, spent>> /\ whole' = Loaded /\ tail' = <<>> /\ pc' = [pc EXCEPT ![t] = "idle"]
    BY <1>10 DEF WriteNewline, Goto
  <2>2. Unwritten' \subseteq Unwritten
    BY <1>0, <2>1 DEF TypeOK, Unwritten
  <2>3. Apart(whole', n) /\ \A u \in Unwritten : NewTo(job[u], whole')
    BY <1>1, <2>1, LoadedApart
  <2> QED BY <1>0, <1>1, <1>3, <2>1, <2>2, <2>3, NothingApart DEF HistoryInv
<1>11. ASSUME NEW t \in Threads, PersistFails(t) PROVE HistoryInv'
  <2>1. UNCHANGED <<mem, whole, tail, job>> /\ pc' = [pc EXCEPT ![t] = "idle"]
        /\ spent' = [spent EXCEPT !["fault"] = @ + 1]
    BY <1>11 DEF PersistFails, Goto, Spend
  <2>2. spent'["event"] = n /\ Unwritten' \subseteq Unwritten
    BY <1>0, <1>1, <2>1 DEF TypeOK, Occurrence, Unwritten
  <2> QED BY <1>3, <1>7, <2>1, <2>2
<1>12. ASSUME NEW t \in Threads, ClearInMemory(t) PROVE HistoryInv'
  <2>1. PICK e : e = NextEntry(<<>>, n + 1)
    OBVIOUS
  <2>2. e \in Entry /\ Stamped(e, n + 1) /\ e.event = n + 1
    BY <1>2, <2>1, EmptyLog, AppendStamps
  <2>3. mem' = <<e>> /\ job' = [job EXCEPT ![t] = e] /\ UNCHANGED <<whole, tail>>
        /\ pc' = [pc EXCEPT ![t] = "truncate"]
        /\ spent' = [spent EXCEPT !["clear"] = @ + 1, !["event"] = @ + 1]
    BY <1>1, <1>12, <2>1 DEF ClearInMemory, Goto
  <2>4. Apart(mem', n + 1)
    BY <2>2, <2>3 DEF Apart
  <2>5. spent'["event"] = n + 1 /\ Unwritten' \subseteq Unwritten \cup {t}
    BY <1>0, <1>1, <2>3 DEF TypeOK, Occurrence, Unwritten
  <2> QED BY <1>6, <2>2, <2>3, <2>4, <2>5
<1>13. ASSUME NEW t \in Threads, Truncate(t) PROVE HistoryInv'
  <2>1. UNCHANGED <<mem, job, spent>> /\ whole' = <<>> /\ tail' = <<>> /\ pc[t] = "truncate"
        /\ pc' = [pc EXCEPT ![t] = "line"]
    BY <1>13 DEF Truncate, Goto
  <2>2. Unwritten' \subseteq Unwritten
    BY <1>0, <2>1 DEF TypeOK, Unwritten
  <2> QED BY <1>0, <1>1, <1>3, <2>1, <2>2, NothingApart DEF HistoryInv
<1>14. ASSUME Crash PROVE HistoryInv'
  <2>1. mem' = <<>> /\ pc' = [t \in Threads |-> "idle"] /\ UNCHANGED <<whole, tail>>
        /\ spent' = [spent EXCEPT !["crash"] = @ + 1]
    BY <1>14 DEF Crash, Spend
  <2>2. Unwritten' = {} /\ spent'["event"] = n
    BY <1>0, <1>1, <2>1 DEF TypeOK, Occurrence, Unwritten
  <2> QED BY <1>0, <1>3, <2>1, <2>2, NothingApart DEF HistoryInv
<1>15. ASSUME Boot PROVE HistoryInv'
  <2>1. mem' = Loaded /\ UNCHANGED <<whole, tail, pc, job, spent>>
    BY <1>15 DEF Boot
  <2>2. Unwritten' = Unwritten /\ Apart(mem', n)
    BY <1>1, <2>1, LoadedApart DEF Unwritten
  <2> QED BY <1>1, <1>7, <2>1, <2>2
<1>16. ASSUME BootUnreadable PROVE HistoryInv'
  <2>1. mem' = <<>> /\ UNCHANGED <<whole, tail, pc, job>> /\ spent' = [spent EXCEPT !["fault"] = @ + 1]
    BY <1>16 DEF BootUnreadable, Spend
  <2>2. Unwritten' = Unwritten /\ spent'["event"] = n
    BY <1>0, <1>1, <2>1 DEF TypeOK, Occurrence, Unwritten
  <2> QED BY <1>7, <2>1, <2>2, NothingApart
<1>17. CASE UNCHANGED vars
  <2>1. UNCHANGED <<mem, whole, tail, pc, job, spent>>
    BY <1>17 DEF vars, auxVars
  <2>2. Unwritten' = Unwritten
    BY <2>1 DEF Unwritten
  <2> QED BY <1>1, <1>3, <1>7, <2>1, <2>2
<1> QED BY <1>8, <1>9, <1>10, <1>11, <1>12, <1>13, <1>14, <1>15, <1>16, <1>17 DEF Next

\* Entries of different events have different leaf hashes.
LEMMA ApartLeaves ==
  ASSUME HistoryInv
  PROVE  LeavesApart(mem)
<1>1. SUFFICES ASSUME NEW i \in 1..Len(mem), NEW j \in 1..Len(mem), mem[i].leaf = mem[j].leaf
               PROVE  i = j
  BY DEF LeavesApart
<1>2. Stamped(mem[i], spent["event"]) /\ Stamped(mem[j], spent["event"])
  BY DEF HistoryInv, Apart
<1>3. <<mem[i].seq, mem[i].event>> = <<mem[j].seq, mem[j].event>>
  BY <1>1, <1>2 DEF Stamped
<1>4. mem[i].event = mem[j].event
  BY <1>3
<1> QED BY <1>4 DEF HistoryInv, Apart

\* The root pins the history, in every reachable state of the ledger.
THEOREM RootAlwaysPinsHistory == Spec => []RootPinsHistory
<1>1. HistoryInv => RootPinsHistory
  BY ApartLeaves, RootPins DEF HistoryInv
<1> QED BY <1>1, HistoryInit, HistoryStep, PTL DEF Spec

\* Every proof of an export verifies, in every reachable state of the ledger.
THEOREM ExportAlwaysVerifies == Spec => []ExportVerifies
<1>1. TypeOK /\ ChainIntact => ExportVerifies
  <2>1. SUFFICES ASSUME TypeOK, ChainIntact, mem # <<>>, NEW i \in 1..Len(mem)
                 PROVE  /\ VerifyInclusion(InclusionProofs(mem)[i])
                        /\ InclusionProofs(mem)[i].root = MerkleRoot(Leaves(mem))
                        /\ chainOk => InclusionProof(mem, mem[i].seq) = InclusionProofs(mem)[i]
    BY DEF ExportVerifies
  <2> QED BY <2>1, ExportOf DEF TypeOK, ChainIntact
<1> QED BY <1>1, TypeCorrect, ChainAlwaysIntact, PTL

==============================================================================
