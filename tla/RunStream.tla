----------------------------- MODULE RunStream ------------------------------
(***************************************************************************)
(* Simulated runs and their event stream (server/src/main.rs): a run sends *)
(* its events on a broadcast channel while it works, stores its response,  *)
(* and sends Done; a subscriber joins the channel, then reads the stored   *)
(* response, shows that first and the channel's events after it.           *)
(*                                                                         *)
(* The channel keeps its last Capacity events; a receiver that is further  *)
(* behind is told so and goes on with the oldest it has.  A client that    *)
(* disconnects takes its handler with it, not the blocking task.           *)
(*                                                                         *)
(* One progress event stands for all of a scenario.  The channel is        *)
(* lossless up to its capacity as tokio documents it.                      *)
(***************************************************************************)
EXTENDS Naturals, Sequences, SequencesExt

CONSTANTS
  Capacity,      \* of the channel: 1024
  Scenarios,     \* how many a run has: one, or two
  Viewers,       \* subscribers
  MaxRuns        \* (bounds the model)

ASSUME RunAssumption == Capacity \in Nat \ {0} /\ Scenarios \in 1..2 /\ MaxRuns \in Nat

VARIABLES
  runs,        \* run_counter: the runs that began
  stage,       \* of each run: what it is at, and whether its handler was dropped
  sent,        \* everything sent on the channel
  lastResult,  \* AppState.last_result, the run's number; 0 for none
  viewer       \* of each viewer: where it reads, what it got

runVars == <<runs, stage, sent, lastResult, viewer>>

Progress(r, n) == [type |-> "progress", run |-> r, n |-> n]
Result(r, n) == [type |-> "result", run |-> r, n |-> n]
Finished(r) == [type |-> "done", run |-> r, n |-> 0]
Lagged == [type |-> "lagged", run |-> 0, n |-> 0]

\* Not there yet; joined the channel; reading; left.
Away == [at |-> "away", joined |-> 0, next |-> 0, got |-> <<>>]

RunInit ==
  /\ runs = 0 /\ stage = [r \in 1..MaxRuns |-> [at |-> "none", n |-> 0, alone |-> FALSE]]
  /\ sent = <<>> /\ lastResult = 0
  /\ viewer = [v \in Viewers |-> Away]

\* run_handler, checked: the run gets its number, the blocking task starts.
BeginRun ==
  /\ runs < MaxRuns
  /\ runs' = runs + 1
  /\ stage' = [stage EXCEPT ![runs + 1] = [at |-> "measure", n |-> 1, alone |-> FALSE]]
  /\ UNCHANGED <<sent, lastResult, viewer>>

\* simulate_handler and blind_challenge_start take a number and send nothing.
SilentRun ==
  /\ runs < MaxRuns
  /\ runs' = runs + 1
  /\ UNCHANGED <<stage, sent, lastResult, viewer>>

\* execute_scenario_streaming: the blocking task works on, whether or not its
\* handler is still there.
Measure(r) ==
  /\ stage[r].at = "measure"
  /\ sent' = Append(sent, Progress(r, stage[r].n))
  /\ stage' = [stage EXCEPT ![r].at = "conclude"]
  /\ UNCHANGED <<runs, lastResult, viewer>>

\* The scenario's result; then the next scenario, or the response.
Conclude(r) ==
  /\ stage[r].at = "conclude"
  /\ sent' = Append(sent, Result(r, stage[r].n))
  /\ stage' = IF stage[r].n < Scenarios
              THEN [stage EXCEPT ![r].at = "measure", ![r].n = @ + 1]
              ELSE [stage EXCEPT ![r].at = "store"]
  /\ UNCHANGED <<runs, lastResult, viewer>>

\* Mutant: the run returns without a Done.
StoreReturns(r) ==
  /\ stage[r].at = "store" /\ ~stage[r].alone
  /\ lastResult' = r
  /\ stage' = [stage EXCEPT ![r].at = "over"]
  /\ UNCHANGED <<runs, sent, viewer>>

\* run_handler goes on: last_result,
Store(r) ==
  /\ stage[r].at = "store" /\ ~stage[r].alone
  /\ lastResult' = r
  /\ stage' = [stage EXCEPT ![r].at = "announce"]
  /\ UNCHANGED <<runs, sent, viewer>>

\* Mutant: Done is sent before the response is stored.
AnnounceEarly(r) ==
  /\ stage[r].at = "store" /\ ~stage[r].alone /\ ~Contains(sent, Finished(r))
  /\ sent' = Append(sent, Finished(r))
  /\ UNCHANGED <<runs, stage, lastResult, viewer>>

\* then Done.
Announce(r) ==
  /\ stage[r].at = "announce"
  /\ sent' = Append(sent, Finished(r))
  /\ stage' = [stage EXCEPT ![r].at = "over"]
  /\ UNCHANGED <<runs, lastResult, viewer>>

\* The client of a run disconnects while the task works: its handler is dropped.
ClientLeaves(r) ==
  /\ stage[r].at \in {"measure", "conclude"} /\ ~stage[r].alone
  /\ stage' = [stage EXCEPT ![r].alone = TRUE]
  /\ UNCHANGED <<runs, sent, lastResult, viewer>>

\* sse_handler: from here on every event is for this viewer too,
Subscribe(v) ==
  /\ viewer[v].at = "away"
  /\ viewer' = [viewer EXCEPT ![v] = [at |-> "joined", joined |-> Len(sent), next |-> Len(sent) + 1,
                                      got |-> <<>>]]
  /\ UNCHANGED <<runs, stage, sent, lastResult>>

\* then the stored response, of which the last result is shown.
Replay(v) ==
  /\ viewer[v].at = "joined"
  /\ viewer' = [viewer EXCEPT ![v].at = "reading",
                  ![v].got = IF lastResult = 0 THEN <<>> ELSE <<Result(lastResult, Scenarios)>>]
  /\ UNCHANGED <<runs, stage, sent, lastResult>>

\* Mutant: a receiver that lags goes on without a word.
ReceiveSilently(v) ==
  /\ viewer[v].at = "reading" /\ viewer[v].next <= Len(sent)
  /\ viewer' = IF viewer[v].next + Capacity <= Len(sent)
               THEN [viewer EXCEPT ![v].next = Len(sent) - Capacity + 1]
               ELSE [viewer EXCEPT ![v].next = @ + 1, ![v].got = Append(@, sent[viewer[v].next])]
  /\ UNCHANGED <<runs, stage, sent, lastResult>>

\* BroadcastStream: the next event, or that some were lost.
Receive(v) ==
  /\ viewer[v].at = "reading" /\ viewer[v].next <= Len(sent)
  /\ viewer' = IF viewer[v].next + Capacity <= Len(sent)
               THEN [viewer EXCEPT ![v].next = Len(sent) - Capacity + 1, ![v].got = Append(@, Lagged)]
               ELSE [viewer EXCEPT ![v].next = @ + 1, ![v].got = Append(@, sent[viewer[v].next])]
  /\ UNCHANGED <<runs, stage, sent, lastResult>>

\* A viewer closes its stream; one that comes back is another viewer.
Unsubscribe(v) ==
  /\ viewer[v].at \in {"joined", "reading"}
  /\ viewer' = [viewer EXCEPT ![v] = [Away EXCEPT !.at = "left"]]
  /\ UNCHANGED <<runs, stage, sent, lastResult>>

RunNext ==
  \/ BeginRun \/ SilentRun
  \/ \E r \in 1..MaxRuns :
       Measure(r) \/ Conclude(r) \/ Store(r) \/ Announce(r) \/ ClientLeaves(r)
  \/ \E v \in Viewers : Subscribe(v) \/ Replay(v) \/ Receive(v) \/ Unsubscribe(v)

\* A task that started and a handler that waits for it run on; a stream is polled
\* while its client is there.
RunFairness ==
  /\ \A r \in 1..MaxRuns : WF_runVars(Measure(r) \/ Conclude(r) \/ Store(r) \/ Announce(r))
  /\ \A v \in Viewers : WF_runVars(Replay(v) \/ Receive(v))

RunSpec == RunInit /\ [][RunNext]_runVars /\ RunFairness

-----------------------------------------------------------------------------
Got(v, event) == Contains(viewer[v].got, event)
PlaceIn(s, event) == CHOOSE i \in DOMAIN s : s[i] = event

\* "So late SSE subscribers can catch up": who joins after a run's Done, before or
\* while others run, is shown a result first.
LateViewerCatchesUp ==
  \A v \in Viewers, r \in 1..MaxRuns :
    /\ viewer[v].at = "reading"
    /\ \E i \in 1..viewer[v].joined : sent[i] = Finished(r)
    => viewer[v].got # <<>> /\ viewer[v].got[1].type = "result"

\* A viewer that joined before a run sent anything and reads that run's Done has
\* all its results, in order and before the Done, or was told that it lost some.
DoneAfterResults ==
  \A v \in Viewers, r \in 1..MaxRuns :
    /\ Got(v, Finished(r)) /\ ~Got(v, Lagged)
    /\ \A i \in 1..viewer[v].joined : sent[i].run # r
    => \A n \in 1..Scenarios :
         /\ Got(v, Result(r, n)) /\ Got(v, Progress(r, n))
         /\ \E i, j \in DOMAIN viewer[v].got :
              i < j /\ viewer[v].got[i] = Progress(r, n) /\ viewer[v].got[j] = Result(r, n)
         /\ \E i \in DOMAIN viewer[v].got :
              viewer[v].got[i] = Result(r, n) /\ i < PlaceIn(viewer[v].got, Finished(r))

\* A viewer that watches when a run begins is told of its end, or that it lost
\* events - unless the run's own client or the viewer leaves.
EndIsHeardOf ==
  \A v \in Viewers, r \in 1..MaxRuns :
    (stage[r] = [at |-> "measure", n |-> 1, alone |-> FALSE] /\ viewer[v].at = "reading"
     /\ ~\E i \in DOMAIN sent : sent[i].run = r)
      ~> (Got(v, Finished(r)) \/ Got(v, Lagged) \/ viewer[v].at = "left"
          \/ stage[r].alone)
=============================================================================
