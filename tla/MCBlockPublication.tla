-------------------------- MODULE MCBlockPublication --------------------------
(* TLC instances of BlockPublication: each behaviour follows one scenario. *)
EXTENDS BlockPublication, FiniteSets, TLC

CONSTANT Actors     \* members that may die, or be the first to be enlisted

VARIABLE scenario   \* its name, whom it happens to, the block hashes in play

scenarioVars == <<vars, scenario>>

Symmetry == Permutations(Members) \cup Permutations(Hashes)

\* The number of records each scenario may commit.
Records ==
  [first |-> 8, crash |-> 6, crashed |-> 8, crashed_switch |-> 5, retire |-> 7,
   switch |-> 6, disabled |-> 7, enlist |-> 8, barrier |-> 6, release |-> 5]

\* One hash is enough unless the scenario is the choice of the first block; one
\* member dies or is there from the start.
Scenarios(names) ==
  {s \in [name : names, actors : SUBSET Actors, hashes : SUBSET Hashes] :
     /\ IF s.name = "first" THEN s.hashes = Hashes ELSE Cardinality(s.hashes) = 1
     /\ Cardinality(s.actors) =
          IF s.name \in {"crash", "crashed", "crashed_switch", "enlist"} THEN 1 ELSE 0}

\* A scope about to be published: nodes have bootstrapped and answer locally.
InitLocal ==
  /\ log = <<>>
  /\ node = [m \in Members |-> [Started(1) EXCEPT !.bootstrapped = TRUE]]
  /\ local = [m \in Members |-> [Unfenced EXCEPT !.guarded = TRUE]]

\* A scope that serves its first block to the listed members: every older
\* delivery has arrived.
Serving(listed, hash) ==
  LET first == [m \in Members |-> IF m \in listed THEN 1 ELSE Unlisted]
  IN [New(listed) EXCEPT
       !.phase = "active", !.epoch = 1, !.minimum = 1,
       !.published = [height |-> 1, hash |-> hash],
       !.members = first, !.active = first, !.closed = first,
       !.ready = [m \in Members |-> IF m \in listed THEN NoHash ELSE Absent]]
InitServing(listed, hash) ==
  /\ log = <<Serving(listed, hash)>>
  /\ node = [m \in Members |->
       [Started(1) EXCEPT !.gate = 1, !.snap = 1, !.bootstrapped = TRUE]]
  /\ local = [m \in Members |-> [Unfenced EXCEPT !.fenced = m \in listed]]

\* A scope that is served while members come back with a fresh boot.
InitCrashed(crashed, hash) ==
  /\ log = <<Serving(Roster, hash)>>
  /\ node = [m \in Members |->
       IF m \in crashed THEN Started(2)
       ELSE [Started(1) EXCEPT !.gate = 1, !.snap = 1, !.bootstrapped = TRUE]]
  /\ local = [m \in Members |-> [Unfenced EXCEPT !.fenced = m \notin crashed]]

\* A scope that was served once and is disabled.
InitDisabled(hash) ==
  /\ log = <<[Serving(Roster, hash) EXCEPT !.phase = "disabled", !.active = Nobody]>>
  /\ node = [m \in Members |-> [Started(1) EXCEPT !.gate = 1, !.bootstrapped = TRUE]]
  /\ local = [m \in Members |-> [Unfenced EXCEPT !.height = 1, !.guarded = TRUE]]

ScenarioInit(names) ==
  /\ scenario \in Scenarios(names)
  /\ LET name == scenario.name
     IN \E hash \in scenario.hashes :
          \/ name = "first" /\ InitLocal
          \/ name = "disabled" /\ InitDisabled(hash)
          \/ name = "crashed" /\ InitCrashed(scenario.actors, hash)
          \/ name = "enlist" /\ InitServing(scenario.actors, hash)
          \/ name \notin {"first", "disabled", "crashed", "enlist"} /\ InitServing(Roster, hash)

\* The application or the runtime of a member dies and its boot is fenced.
CrashStep(m) == Restart(m) \/ RestartRuntime(m) \/ FenceExternally(m)

\* Nodes retire in an orderly way, the operator delists them.
RetireStep ==
  \E m \in Members : Retire(m) \/ FenceSelf(m) \/ RestartRuntime(m) \/ Delist(m)

\* The operator enlists a member and may delist it before it joins.
EnlistStep == \E m \in Members : Enlist(m) \/ Delist(m)

SwitchStep == EnableScope \/ DisableScope

ScenarioNext ==
  /\ LET name == scenario.name
         actors == scenario.actors
     IN \/ Steady
        \/ name = "crash" /\ \E m \in actors : CrashStep(m)
        \/ name = "crashed" /\ \E m \in actors : FenceExternally(m)
        \/ name = "crashed_switch" /\ \E m \in actors : Restart(m) \/ FenceExternally(m)
        \/ name = "retire" /\ RetireStep
        \/ name = "enlist" /\ EnlistStep
        \/ name \in {"switch", "crashed_switch", "release"} /\ SwitchStep
        \/ name = "disabled" /\ EnableScope
  /\ Len(log') <= Records[scenario.name]
  /\ \A m \in Members :
       /\ node'[m].task.block.hash \in scenario.hashes \cup {NoHash}
       /\ log' # <<>> => log'[Len(log')].ready[m] \in scenario.hashes \cup {NoHash, Absent}
  /\ UNCHANGED scenario

PublishingSpec ==
  /\ ScenarioInit({"first", "retire", "switch", "disabled", "enlist",
                   "crash", "crashed", "crashed_switch"})
  /\ [][ScenarioNext]_scenarioVars

\* A node's reconciliation timer keeps firing and the journal's errors end;
\* nothing is assumed of broadcasts.
Fairness ==
  \A m \in Members : WF_vars(Reconcile(m)) /\ SF_vars(Acknowledge(m))
LivenessSpec ==
  ScenarioInit({"barrier", "release"}) /\ [][ScenarioNext]_scenarioVars /\ Fairness

\* The same, while the supervisor may restart runtimes during the shutdown.
RestartDuringDisable(m) ==
  Current.phase = "disabling" /\ RestartRuntime(m)
MissedDisableSpec ==
  /\ ScenarioInit({"release"})
  /\ [][/\ Steady \/ DisableScope \/ \E m \in Members : RestartDuringDisable(m)
        /\ UNCHANGED scenario]_scenarioVars
  /\ Fairness
=============================================================================
