--------------------------- MODULE SimulatorPanel ---------------------------
(***************************************************************************)
(* The tester as the dashboard shows it: the SimulatorControl hook of the  *)
(* page (assets/js/app.js), which drives Simulator and reports to the      *)
(* SimulatorControls component of the LiveView process                     *)
(* (lib/lasso_web/components/simulator_controls.ex).                       *)
(*                                                                         *)
(* Pushes travel in order both ways while the socket is up; what is in     *)
(* flight is lost with it, and the process that serves the page again      *)
(* starts from nothing.  Pushes made by one callback travel together.  A   *)
(* click is handled by the server at once: its pushes of the page that are *)
(* still in flight then are those that send_update lets it overtake.  Of   *)
(* the recent calls a run's name is kept, so neither the fifty of the      *)
(* buffer nor the eight of a push are seen.                                *)
(***************************************************************************)
EXTENDS Simulator, FiniteSetsExt

CONSTANTS
  Chains,       \* values of the available chains
  MaxQueue,     \* bound on pushes in flight when a periodic one is added
  MaxClicks,    \* bound on clicks, switches included
  MaxBreaks     \* bound on lost sockets and on leaving the page

VARIABLES
  hook,    \* this.profile, this.availableChains, this.recentCalls and whether
           \* this.immediateUpdate is pending
  link,    \* the LiveView socket: "up", "down", or "away" from the page
  up,      \* pushes of the hook on their way to the component
  down,    \* events and patches on their way to the page
  panel,   \* the component's assigns
  clicks, breaks

panelVars == <<hook, link, up, down, panel, clicks, breaks>>
allVars   == <<run, panelVars>>

Zero  == [inflight |-> 0, open |-> 0]
Links == {"up", "down", "away"}

\* A push assigns what it has; a field without a value is left alone.
Push(running, stats, recent) == [running |-> running, stats |-> stats, recent |-> recent]

Fresh(profile, chains) ==
  [profile |-> profile, chains |-> chains, running |-> FALSE, stats |-> Zero, recent |-> {}]

-----------------------------------------------------------------------------
(* What the hook computes                                                  *)

\* getAggregateStats, of which the panel's state uses two counters.
ActiveStats(runs, profile) ==
  LET active == ActiveRuns(runs, profile)
  IN [inflight |-> MapThenSumSet(LAMBDA r : runs[r].inflight, active),
      open     |-> MapThenSumSet(LAMBDA r : runs[r].open, active)]

\* An activity a run logs, and what the hook asks the manager about it then.
Logged(r, runs) ==
  [run |-> r, profile |-> runs[r].config.profile, stopped |-> FALSE, stats |-> Zero,
   running |-> IsRunning(runs, runs[r].config.profile)]
LoggedStop(r, runs) ==
  [Logged(r, runs) EXCEPT
     !.stopped = TRUE,
     !.stats = [inflight |-> runs[r].reports[1].inflight, open |-> runs[r].reports[1].open]]

\* The hook and its pushes, before a callback logs.
Untold(h) == [hook |-> h, pushes |-> <<>>]

\* Variant: the activities of every profile are shown.
TrackActivityOfAll(t, a) ==
  LET recent == t.hook.recent \cup {a.run}
      alive  == link' = "up"
  IN [hook   |-> [t.hook EXCEPT !.recent = recent,
                                !.debounce = @ \/ (alive /\ ~a.stopped /\ a.running)],
      pushes |-> IF alive /\ a.stopped
                 THEN Append(t.pushes, Push({a.running}, {a.stats}, {recent})) ELSE t.pushes]

\* trackActivity: the hook and its pushes so far, and one more activity.
TrackActivity(t, a) ==
  LET recent == t.hook.recent \cup {a.run}
      alive  == link' = "up"
  IN IF a.profile # t.hook.profile THEN t
     ELSE [hook   |-> [t.hook EXCEPT !.recent = recent,
                                     !.debounce = @ \/ (alive /\ ~a.stopped /\ a.running)],
           pushes |-> IF alive /\ a.stopped
                      THEN Append(t.pushes, Push({a.running}, {a.stats}, {recent}))
                      ELSE t.pushes]

\* Each run that the step stops logs its final activity, in order, while the page
\* is at pages[r].
Told(t, pages) ==
  LET told[n \in 0..MaxRuns] ==
        IF n = 0 THEN t
        ELSE IF StoppedBy(n) THEN TrackActivity(told[n - 1], LoggedStop(n, pages[n]))
        ELSE told[n - 1]
  IN told[MaxRuns]

PagesAtEnd     == [r \in Runs |-> run']
PagesInBetween == [r \in Runs |-> StoppedUpTo(run, r)]

\* The page hears of the stops, then pushes the rest of its own; a hook that was
\* destroyed is told in vain.
Tells(t, pages, rest) ==
  IF link' = "away" THEN UNCHANGED <<hook, up>>
  ELSE /\ hook' = Told(t, pages).hook
       /\ up' = IF link' = "up" THEN up \o Told(t, pages).pushes \o rest ELSE up

-----------------------------------------------------------------------------
(* The page                                                                *)
PageKeeps == UNCHANGED <<link, down, panel, clicks, breaks>>

\* A callback that logs one activity, after which the run may stop.
Logging(r) ==
  /\ \/ Fire(r)
     \/ \E ok \in BOOLEAN : FetchEnds(r, ok)
     \/ \E i \in Sockets :
          \/ SocketCloses(r, i) \/ SocketNotifies(r, i)
          \/ \E sent \in SUBSET Topics : SocketOpens(r, i, sent)
          \/ \E t \in Topics, ok \in BOOLEAN : SocketAnswers(r, i, t, ok)
  /\ PageKeeps
  /\ Tells(TrackActivity(Untold(hook), Logged(r, run)), PagesAtEnd, <<>>)

TimerFires(r) ==
  /\ DurationEnds(r) \/ DrainEnds(r)
  /\ PageKeeps
  /\ Tells(Untold(hook), PagesAtEnd, <<>>)

\* The interval of mounted, every 500 ms while a run is going.
StatsInterval ==
  /\ link = "up" /\ IsRunning(run, hook.profile)
  /\ Len(up) < MaxQueue
  /\ up' = Append(up, Push({}, {ActiveStats(run, hook.profile)}, {hook.recent}))
  /\ UNCHANGED <<run, hook>> /\ PageKeeps

\* The delayed update of trackActivity.
ImmediateUpdate ==
  /\ hook.debounce
  /\ link = "up" => Len(up) < MaxQueue
  /\ hook' = [hook EXCEPT !.debounce = FALSE]
  /\ up' = IF link = "up" THEN Append(up, Push({}, {}, {hook.recent})) ELSE up
  /\ UNCHANGED run /\ PageKeeps

Received == Head(down)
Receive(kind) ==
  /\ link = "up" /\ down # <<>> /\ Received.kind = kind
  /\ down' = Tail(down)
  /\ UNCHANGED <<link, panel, clicks, breaks>>

\* handleEvent("start_simulator_run"): startSimulatorRun, with or without throw.
HandleStart ==
  /\ Receive("start")
  /\ LET cleared == [hook EXCEPT !.recent = {}]
     IN \E r \in Runs :
          \/ /\ StartRun(r, Received.config)
             /\ Tells(TrackActivity(Untold(cleared), Logged(r, run')), PagesAtEnd,
                      <<Push({TRUE}, {}, {})>>)
          \/ /\ \E made \in 0..MaxSockets : StartFails(r, Received.config, made)
             /\ Tells(Untold(cleared), PagesAtEnd, <<>>)

\* handleEvent("stop_all_runs")
HandleStop ==
  /\ Receive("stop")
  /\ StopAllRuns
  /\ Tells(Untold(hook), PagesInBetween, <<>>)

\* Variant: a change of profile stops the runs only if the new profile has one.
StopsRunsOfNext(profile, chains) ==
  /\ profile # hook.profile \/ chains # hook.chains
  /\ IsRunning(run, profile)

\* Does updated() call stopAllRuns?
StopsRuns(profile, chains) ==
  \/ profile # hook.profile
  \/ chains # hook.chains /\ IsRunning(run, profile)

PushesOfSwitch(profile) ==
  <<Push({FALSE}, {ActiveStats(run', profile)}, {{}})>>

\* updated(), after a patch of the page's data attributes.
Updated(profile, chains) ==
  LET switched == profile # hook.profile
      next == [hook EXCEPT !.profile = profile, !.chains = chains,
                           !.recent = IF switched THEN {} ELSE @,
                           !.debounce = @ /\ ~switched]
  IN /\ run' = IF StopsRuns(profile, chains) THEN AllStopped(run) ELSE run
     /\ Tells(Untold(next), PagesInBetween,
              IF switched THEN PushesOfSwitch(profile) ELSE <<>>)

HandlePatch == Receive("patch") /\ Updated(Received.profile, Received.chains)

-----------------------------------------------------------------------------
(* The LiveView process                                                    *)
Chosen(m, old) == IF m = {} THEN old ELSE CHOOSE x \in m : TRUE

\* sim_running, sim_stats and update_recent_calls, forwarded by send_update.
ApplyPush ==
  /\ up # <<>>
  /\ panel' = [panel EXCEPT !.running = Chosen(Head(up).running, @),
                            !.stats = Chosen(Head(up).stats, @),
                            !.recent = Chosen(Head(up).recent, @)]
  /\ up' = Tail(up)
  /\ UNCHANGED <<run, hook, link, down, clicks, breaks>>

Click ==
  /\ link = "up" /\ clicks < MaxClicks
  /\ clicks' = clicks + 1
  /\ UNCHANGED <<run, hook, link, up, breaks>>

\* start_simulator_run or quick_start
ClickStart(config) ==
  /\ Click
  /\ config.profile = panel.profile
  /\ panel' = [panel EXCEPT !.running = TRUE]
  /\ down' = Append(down, [kind |-> "start", config |-> config])

\* sim_stop_all
ClickStop ==
  /\ Click
  /\ panel' = [panel EXCEPT !.running = FALSE]
  /\ down' = Append(down, [kind |-> "stop"])

\* clear_sim_logs, which the page is not told of.
ClearLogs ==
  /\ Click
  /\ panel' = [panel EXCEPT !.recent = {}]
  /\ UNCHANGED down

\* Another tab is shown for a while: its patch removes the component, a new one
\* comes back with the overview.
SwitchTabs ==
  /\ Click
  /\ panel' = Fresh(panel.profile, panel.chains)
  /\ UNCHANGED down

\* The profile is switched, or its chains change: maybe_handle_profile_change.
Repage(profile, chains) ==
  /\ Click
  /\ <<profile, chains>> # <<panel.profile, panel.chains>>
  /\ panel' = [panel EXCEPT !.profile = profile, !.chains = chains]
  /\ down' = Append(down, [kind |-> "patch", profile |-> profile, chains |-> chains])

-----------------------------------------------------------------------------
(* The socket and the page itself                                          *)
Break ==
  /\ breaks < MaxBreaks
  /\ breaks' = breaks + 1
  /\ up' = <<>> /\ down' = <<>>
  /\ UNCHANGED <<panel, clicks>>

Disconnect ==
  /\ link = "up" /\ Break
  /\ link' = "down"
  /\ UNCHANGED <<run, hook>>

\* A new process renders the page, which the rejoin patches in.
Reconnect(profile, chains) ==
  /\ link = "down"
  /\ link' = "up"
  /\ panel' = Fresh(profile, chains)
  /\ Updated(profile, chains)
  /\ UNCHANGED <<down, clicks, breaks>>

\* destroyed()
Leave ==
  /\ link # "away" /\ Break
  /\ link' = "away"
  /\ run' = AllStopped(run)
  /\ hook' = [hook EXCEPT !.recent = {}, !.debounce = FALSE]

\* mounted(), of a new hook in a new process.
Return(profile, chains) ==
  /\ link = "away"
  /\ link' = "up"
  /\ panel' = Fresh(profile, chains)
  /\ hook' = [profile |-> profile, chains |-> chains, recent |-> {}, debounce |-> FALSE]
  /\ UNCHANGED <<run, up, down, clicks, breaks>>

-----------------------------------------------------------------------------
PanelInit ==
  /\ Init
  /\ link = "up" /\ up = <<>> /\ down = <<>>
  /\ clicks = 0 /\ breaks = 0
  /\ \E profile \in Profiles, chains \in Chains :
       /\ panel = Fresh(profile, chains)
       /\ hook = [profile |-> profile, chains |-> chains, recent |-> {}, debounce |-> FALSE]

PanelNext ==
  \/ \E r \in Runs : Logging(r) \/ TimerFires(r)
  \/ StatsInterval \/ ImmediateUpdate \/ HandleStart \/ HandleStop \/ HandlePatch
  \/ ApplyPush \/ ClickStop \/ ClearLogs \/ SwitchTabs
  \/ \E config \in Configs : ClickStart(config)
  \/ \E profile \in Profiles, chains \in Chains :
       Repage(profile, chains) \/ Reconnect(profile, chains) \/ Return(profile, chains)
  \/ Disconnect \/ Leave

PanelSpec ==
  /\ PanelInit /\ [][PanelNext]_allVars
  /\ \A r \in Runs : WF_allVars(TimerFires(r))

-----------------------------------------------------------------------------
(* Properties                                                              *)

\* simulator_active?
PanelActive == panel.running \/ panel.stats.inflight > 0 \/ panel.stats.open > 0
Quiet == link = "up" /\ up = <<>> /\ down = <<>>

\* Once every push has arrived, the component shows a tester at rest if no run
\* of its profile is left, whatever stops, drains, switches, double starts,
\* lost sockets and stale statistics came before.
PanelComesToRest ==
  Quiet /\ ActiveRuns(run, hook.profile) = {} => ~PanelActive

\* A tester loads the profile the page shows and no other, and none from a page
\* that was left, although runs outlive the hook and its profile.
LoadMatchesProfile ==
  \A r \in Runs :
    run[r].state = "RUNNING" => link # "away" /\ run[r].config.profile = hook.profile

\* The recent calls are those of the shown profile, although requests of an
\* earlier one are still answered.
CallsOfProfile ==
  /\ \A r \in hook.recent : run[r].config.profile = hook.profile
  /\ Quiet => \A r \in panel.recent : run[r].config.profile = panel.profile

\* What is loaded and what is told, both keep to the profile that is shown.
PanelKeepsToProfile == LoadMatchesProfile /\ CallsOfProfile
=============================================================================
