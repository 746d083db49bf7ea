-------------------------- MODULE MCSimulatorPanel --------------------------
(* TLC instances of SimulatorPanel: each behaviour keeps to one plan, which  *)
(* gives depth to a single run, to profile switches or to lost sockets.      *)
EXTENDS SimulatorPanel

CONSTANTS P1, P2, C1, C2   \* two profiles, two values of the available chains

\* Bounds on runs, sockets, requests of a run, clicks and breaks, and the pages
\* shown, as <<profile, chains>>.
VARIABLE plan

MCConfigs ==
  [profile : Profiles, http : BOOLEAN, connections : 0..MaxSockets, timed : {TRUE}]

Plan(runs, sockets, fetches, bounds, pages) ==
  [runs |-> runs, sockets |-> sockets, fetches |-> fetches,
   clicks |-> bounds[1], breaks |-> bounds[2], pages |-> pages]

Plans ==
  {Plan(1, 2, 0, <<2, 0>>, {<<P1, C1>>}),
   Plan(1, 0, 2, <<2, 0>>, {<<P1, C1>>}),
   Plan(2, 0, 1, <<2, 0>>, {<<P1, C1>>, <<P2, C1>>}),
   Plan(2, 0, 1, <<2, 1>>, {<<P1, C1>>, <<P2, C2>>}),
   Plan(1, 1, 1, <<2, 1>>, {<<P1, C1>>, <<P1, C2>>})}

InPlan ==
  /\ clicks' <= plan.clicks
  /\ breaks' <= plan.breaks
  /\ <<panel'.profile, panel'.chains>> \in plan.pages
  /\ \A r \in Runs :
       /\ run'[r].fired <= plan.fetches
       /\ run'[r].state # "ABSENT" =>
            /\ r <= plan.runs
            /\ run'[r].config.connections = plan.sockets
            /\ run'[r].config.http <=> plan.fetches > 0

PlannedInit ==
  /\ PanelInit /\ plan \in Plans
  /\ hook.profile = P1 /\ hook.chains = C1

PlannedNext == PanelNext /\ InPlan /\ UNCHANGED plan

PlannedSpec ==
  /\ PlannedInit /\ [][PlannedNext]_<<allVars, plan>>
  /\ \A r \in Runs : WF_allVars(TimerFires(r))
=============================================================================
