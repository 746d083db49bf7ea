------------------------------ MODULE Simulator ------------------------------
(***************************************************************************)
(* The load tester that runs in the operator's browser                     *)
(* (assets/js/lasso_simulator.js): SimulatorRun, one finite load of HTTP   *)
(* requests and WebSocket subscriptions, and SimulatorManager, the map of  *)
(* the runs that are still going.                                          *)
(*                                                                         *)
(* A method of SimulatorRun is an operator from the run's record to its    *)
(* record; the actions are the callbacks the browser makes: timers, the    *)
(* promise of a fetch, the events of a socket.  JavaScript runs each to    *)
(* its end before the next, so a callback is one step with every call it   *)
(* makes.  Latencies, URLs, methods and chain names are left out; each     *)
(* socket asks for each topic once, so <<socket, topic>> is the request.   *)
(***************************************************************************)
EXTENDS Integers, Sequences, FiniteSets

CONSTANTS
  Configs,       \* what a run may be asked for, see ConfigsAssumption
  Profiles,      \* config.profile
  Topics,        \* wsConfig.topics
  MaxSockets,    \* bound on wsConfig.connections
  Concurrency,   \* httpConfig.concurrency
  MaxRuns,       \* bound on runs in the life of the page
  MaxFetches     \* bound on requests of one run

ASSUME ConfigsAssumption ==
  Configs \subseteq
    [profile : Profiles, http : BOOLEAN, connections : 0..MaxSockets, timed : BOOLEAN]

ASSUME SimulatorAssumption ==
  /\ Configs # {}
  /\ IsFiniteSet(Topics)
  /\ MaxSockets \in Nat
  /\ Concurrency \in Nat \ {0}
  /\ MaxRuns \in Nat \ {0}
  /\ MaxFetches \in Nat

VARIABLE run   \* the SimulatorRun objects, in the order of the manager's map

Runs     == 1..MaxRuns
Sockets  == 1..MaxSockets
Requests == Sockets \X Topics
RunState == {"ABSENT", "STARTING", "RUNNING", "STOPPING", "STOPPED"}
Sockstate == {"none", "connecting", "open", "closing", "closed"}

\* Variant: no floor.
AsItIs(n) == n

AtLeastZero(n) == IF n < 0 THEN 0 ELSE n

-----------------------------------------------------------------------------
(* The record of a run.  The fields before "asked" are the object's own;   *)
(* "loading" is httpController with its interval.  "fired", "outstanding"  *)
(* and "handshakes" are what the browser and the reader know: requests     *)
(* ever sent, requests still unanswered, subscriptions ever asked for.     *)
Constructed(config) ==
  [state |-> "STARTING", config |-> config, listed |-> TRUE,
   durationTimer |-> FALSE, stopDrainTimer |-> FALSE, loading |-> FALSE,
   success |-> 0, error |-> 0, inflight |-> 0,
   socket |-> [i \in Sockets |-> "none"], asked |-> {},
   open |-> 0, pending |-> 0, established |-> 0, rejected |-> 0,
   reports |-> <<>>, fired |-> 0, outstanding |-> 0, handshakes |-> 0]

Absent == [Constructed(CHOOSE c \in Configs : TRUE) EXCEPT
             !.state = "ABSENT", !.listed = FALSE]

\* What the final activity of a run says of it.
FinalStats(r) ==
  [success |-> r.success, error |-> r.error, inflight |-> r.inflight, open |-> r.open]

\* Variant: the counter of requests under way is not reset.
FinalizeStopKeepsInflight(r) ==
  IF r.state # "STOPPING" THEN r
  ELSE [r EXCEPT !.stopDrainTimer = FALSE, !.state = "STOPPED",
                 !.reports = Append(@, FinalStats(r)), !.listed = FALSE]

FinalizeStop(r) ==
  IF r.state # "STOPPING" THEN r
  ELSE [r EXCEPT !.stopDrainTimer = FALSE, !.inflight = 0, !.state = "STOPPED",
                 !.reports = Append(@, FinalStats([r EXCEPT !.inflight = 0])),
                 !.listed = FALSE]

\* Variant: the run reports at once, without its requests under way.
FinishStopAtOnce(r) == FinalizeStop(r)

\* Variant: nothing waits for the requests under way but they themselves.
FinishStopWithoutTimer(r) ==
  IF r.state = "STOPPING" /\ r.inflight > 0 THEN r ELSE FinalizeStop(r)

FinishStopWhenDrained(r) ==
  IF r.state = "STOPPING" /\ r.inflight > 0
  THEN [r EXCEPT !.stopDrainTimer = TRUE]
  ELSE FinalizeStop(r)

-----------------------------------------------------------------------------
(* Starting and stopping                                                   *)
StartHttpLoad(r) ==
  IF ~r.config.http THEN r
  ELSE [r EXCEPT !.success = 0, !.error = 0, !.inflight = 0, !.loading = TRUE]

\* The first "made" sockets have been constructed.
StartWsLoad(r, made) ==
  [r EXCEPT !.socket = [i \in Sockets |-> IF i <= made THEN "connecting" ELSE "none"],
            !.asked = {}, !.open = 0, !.pending = 0, !.established = 0, !.rejected = 0]

Loaded(config, made) ==
  StartWsLoad(StartHttpLoad([Constructed(config) EXCEPT !.state = "RUNNING"]), made)

Start(config) ==
  [Loaded(config, config.connections) EXCEPT !.durationTimer = config.timed]

StopHttpLoad(r) == [r EXCEPT !.loading = FALSE]

StopWsLoad(r) ==
  [r EXCEPT !.socket =
              [i \in Sockets |-> IF @[i] \in {"connecting", "open"} THEN "closing" ELSE @[i]],
            !.asked = {}, !.pending = 0, !.open = 0]

Stop(r) ==
  IF r.state \in {"ABSENT", "STOPPED", "STOPPING"} THEN r
  ELSE FinishStopWhenDrained(
         StopWsLoad(StopHttpLoad([r EXCEPT !.state = "STOPPING", !.durationTimer = FALSE])))

IsActive(r) == r.state # "STOPPED"

-----------------------------------------------------------------------------
(* Requests and sockets                                                    *)
MayFire(r) == r.loading /\ r.state = "RUNNING" /\ r.inflight < Concurrency

Fired(r) ==
  [r EXCEPT !.inflight = @ + 1, !.fired = @ + 1, !.outstanding = @ + 1]

Counted(r, ok) ==
  IF ok THEN [r EXCEPT !.success = @ + 1, !.outstanding = @ - 1]
  ELSE [r EXCEPT !.error = @ + 1, !.outstanding = @ - 1]

\* Variant: the finally block writes the report when the run no longer runs.
FetchedReports(r, ok) ==
  LET d == [Counted(r, ok) EXCEPT !.inflight = AtLeastZero(@ - 1)]
  IN IF d.state = "RUNNING" \/ d.inflight > 0 THEN d
     ELSE [d EXCEPT !.stopDrainTimer = FALSE, !.state = "STOPPED", !.listed = FALSE,
                    !.reports = Append(@, FinalStats(d))]

\* Variant: a request that throws never reaches the decrement.
FetchedWithoutFinally(r, ok) ==
  LET c == Counted(r, ok)
      d == IF ok THEN [c EXCEPT !.inflight = AtLeastZero(@ - 1)] ELSE c
  IN IF d.state = "STOPPING" THEN FinishStopWhenDrained(d) ELSE d

\* The outcome is counted, then the finally block runs.
Fetched(r, ok) ==
  LET d == [Counted(r, ok) EXCEPT !.inflight = AtLeastZero(@ - 1)]
  IN IF d.state = "STOPPING" THEN FinishStopWhenDrained(d) ELSE d

\* Subscriptions "which" are answered, or given up.
FinishWsSubscriptions(r, which, ok) ==
  LET known == which \cap r.asked
      n     == Cardinality(known)
      gone  == [r EXCEPT !.asked = @ \ known, !.pending = AtLeastZero(@ - n)]
  IN IF ok THEN [gone EXCEPT !.established = @ + n] ELSE [gone EXCEPT !.rejected = @ + n]

\* onopen: every topic is asked for; send throws for the topics not in "sent".
Opened(r, i, sent) ==
  LET new == {i} \X Topics
      opened == [r EXCEPT !.socket[i] = "open", !.open = @ + 1, !.asked = @ \cup new,
                          !.pending = @ + Cardinality(new),
                          !.handshakes = @ + Cardinality(new)]
  IN FinishWsSubscriptions(opened, {i} \X (Topics \ sent), FALSE)

\* Variant: a socket that closes leaves its subscriptions pending.
ClosedWithoutReject(r, i) ==
  [r EXCEPT !.socket[i] = "closed", !.open = AtLeastZero(@ - 1)]

\* onclose, also of a socket that never opened.
Closed(r, i) ==
  LET settled == FinishWsSubscriptions(r, {i} \X Topics, FALSE)
  IN [settled EXCEPT !.socket[i] = "closed", !.open = AtLeastZero(@ - 1)]

-----------------------------------------------------------------------------
(* SimulatorManager                                                        *)
Active(runs, r) == runs[r].listed /\ IsActive(runs[r])

ActiveRuns(runs, profile) ==
  {r \in Runs : Active(runs, r) /\ runs[r].config.profile = profile}

IsRunning(runs, profile) == ActiveRuns(runs, profile) # {}

\* The runs are stopped in order; these are the runs once r has been.
StoppedUpTo(runs, r) ==
  [s \in Runs |-> IF s <= r /\ Active(runs, s) THEN Stop(runs[s]) ELSE runs[s]]
AllStopped(runs) == StoppedUpTo(runs, MaxRuns)

Unused(r) == run[r].state = "ABSENT" /\ \A s \in Runs : s < r => run[s].state # "ABSENT"

-----------------------------------------------------------------------------
(* What happens in the page                                                *)
Init == run = [r \in Runs |-> Absent]

Becomes(r, new) == run' = [run EXCEPT ![r] = new]

\* startRun
StartRun(r, config) == Unused(r) /\ Becomes(r, Start(config))

\* startRun when a WebSocket constructor throws: the run is stopped again.
StartFails(r, config, made) ==
  /\ Unused(r)
  /\ made < config.connections
  /\ Becomes(r, Stop(Loaded(config, made)))

StopAllRuns == run' = AllStopped(run)

\* The interval fires; fireOnce sends a request.
Fire(r) ==
  /\ MayFire(run[r])
  /\ run[r].fired < MaxFetches
  /\ Becomes(r, Fired(run[r]))

\* The response of a fetch is read, or the fetch throws.
FetchEnds(r, ok) == run[r].outstanding > 0 /\ Becomes(r, Fetched(run[r], ok))

DurationEnds(r) == run[r].durationTimer /\ Becomes(r, Stop(run[r]))

\* The five seconds of _finishStopWhenDrained are over.
DrainEnds(r) == run[r].stopDrainTimer /\ Becomes(r, FinalizeStop(run[r]))

SocketOpens(r, i, sent) ==
  run[r].socket[i] = "connecting" /\ Becomes(r, Opened(run[r], i, sent))

\* The connection failed, was lost, or the close that stop asked for is done.
SocketCloses(r, i) ==
  run[r].socket[i] \in {"connecting", "open", "closing"} /\ Becomes(r, Closed(run[r], i))

\* The node's answer to a subscription: _handleWsMessage with a known id.
SocketAnswers(r, i, t, ok) ==
  /\ run[r].socket[i] = "open"
  /\ <<i, t>> \in run[r].asked
  /\ Becomes(r, FinishWsSubscriptions(run[r], {<<i, t>>}, ok))

\* Any other message of an open socket: it is only logged.
SocketNotifies(r, i) == run[r].socket[i] = "open" /\ UNCHANGED run

Page(r) ==
  \/ \E ok \in BOOLEAN : FetchEnds(r, ok)
  \/ \E i \in Sockets :
       \/ SocketCloses(r, i)
       \/ \E sent \in SUBSET Topics : SocketOpens(r, i, sent)
       \/ \E t \in Topics, ok \in BOOLEAN : SocketAnswers(r, i, t, ok)
  \/ Fire(r) \/ DurationEnds(r) \/ DrainEnds(r)

Commands ==
  \/ \E r \in Runs, config \in Configs :
       StartRun(r, config) \/ \E made \in 0..MaxSockets : StartFails(r, config, made)
  \/ StopAllRuns

Next == Commands \/ \E r \in Runs : Page(r)

Spec == Init /\ [][Next]_run

-----------------------------------------------------------------------------
(* Properties                                                              *)
RunOK(r) ==
  /\ r.state \in RunState /\ r.config \in Configs
  /\ {r.listed, r.durationTimer, r.stopDrainTimer, r.loading} \subseteq BOOLEAN
  /\ {r.success, r.error, r.inflight, r.fired, r.outstanding} \subseteq Nat
  /\ {r.open, r.pending, r.established, r.rejected, r.handshakes} \subseteq Nat
  /\ r.socket \in [Sockets -> Sockstate]
  /\ r.asked \subseteq Requests

\* Every field of every run has its type.
TypeOK == DOMAIN run = Runs /\ \A r \in Runs : RunOK(run[r])

\* What the tester counts is what the browser did: each request sent is a
\* success, an error or still unanswered, and "inflight", which bounds the
\* load and holds back the report, is the number of the unanswered ones for
\* as long as the run is not stopped, whatever throws in between.
AccountsForRequests(r) ==
  /\ r.success + r.error + r.outstanding = r.fired
  /\ r.inflight = IF r.state = "STOPPED" THEN 0 ELSE r.outstanding
RequestsAccounted == \A r \in Runs : AccountsForRequests(run[r])

\* A run stops once: the drain timer, the last response, a second stop and a
\* late response after the cut produce one report and one onStopped between
\* them, and nothing of a stopped run can still fire.
StopsOnce(r) ==
  /\ Len(r.reports) = IF r.state = "STOPPED" THEN 1 ELSE 0
  /\ r.listed <=> r.state \in {"RUNNING", "STOPPING"}
  /\ r.loading => r.state = "RUNNING"
  /\ r.durationTimer => r.state = "RUNNING"
  /\ r.stopDrainTimer => r.state = "STOPPING" /\ r.inflight > 0
StoppedOnce == \A r \in Runs : StopsOnce(run[r])

\* Every subscription asked for is pending, established or rejected exactly
\* once, only those of an open socket are pending, a run that is stopped has
\* none, and never are more sockets shown as open than are.
AccountsForSockets(r) ==
  /\ r.pending = Cardinality(r.asked)
  /\ \A q \in r.asked : r.socket[q[1]] = "open"
  /\ r.state = "RUNNING" => r.established + r.rejected + r.pending = r.handshakes
  /\ r.open <= Cardinality({i \in Sockets : r.socket[i] = "open"})
  /\ r.state \in {"STOPPING", "STOPPED"} => r.asked = {} /\ r.open = 0
SocketsAccounted == \A r \in Runs : AccountsForSockets(run[r])

\* The accounts of every run, as the three parts above have them.
RunAccounts == RequestsAccounted /\ StoppedOnce /\ SocketsAccounted

\* The outcomes a run reports are those of all its requests, unless the drain
\* timer cut it short.
StoppedBy(r) == run[r].state # "STOPPED" /\ run'[r].state = "STOPPED"
FinalOutcomeRetained ==
  [][\A r \in Runs :
       StoppedBy(r) /\ ~DrainEnds(r) =>
         LET report == run'[r].reports[1]
         IN report.success + report.error = run'[r].fired]_run

\* Timers fire; no fetch need ever return, no socket ever close.
Timers == \A r \in Runs : WF_run(DurationEnds(r)) /\ WF_run(DrainEnds(r))
TimedSpec == Spec /\ Timers

\* A run with a duration comes to its end and reports, also when the node
\* never answers.
RunsEnd ==
  \A r \in Runs :
    (run[r].state = "RUNNING" /\ run[r].config.timed) ~> (run[r].state = "STOPPED")
=============================================================================
