----------------------------- MODULE MCDashboard -----------------------------
(* A TLC instance of the hooks of the dashboard.  They share the page and no *)
(* state: each behaviour keeps to the hook it is about.                      *)
EXTENDS Viewport, TopologyStatus, EndpointSelector, ActivityFeed

VARIABLE about

MCExtent == [width |-> 1200, height |-> 900]

\* No panel, the window in a corner, the sheet over the lower half of a phone.
MCPanels ==
  {NoPanel,
   [left |-> 700, right |-> 980, top |-> 20, bottom |-> 400],
   [left |-> 0, right |-> 400, top |-> 300, bottom |-> 600]}

\* Long gestures over a settled page; changes of the page; both, shorter.
MCBudgets ==
  {[inputs |-> 5, changes |-> 0], [inputs |-> 0, changes |-> 3], [inputs |-> 1, changes |-> 2]}

Settled == layout.width = 1000 /\ nodes.now

DashboardInit ==
  /\ ViewInit /\ TopologyInit /\ SelectorInit /\ FeedInit
  /\ about \in {"viewport", "topology", "selector", "feed"}
  /\ budget.inputs = 5 \/ about # "viewport" => Settled
  /\ about # "viewport" => budget.inputs = 5
  /\ about # "feed" => rows = <<>>

DashboardNext ==
  \/ about = "viewport" /\ ViewNext
       /\ UNCHANGED <<topologyVars, selectorVars, feedVars>>
  \/ about = "topology" /\ TopologyNext
       /\ UNCHANGED <<viewVars, selectorVars, feedVars>>
  \/ about = "selector" /\ SelectorNext
       /\ UNCHANGED <<viewVars, topologyVars, feedVars>>
  \/ about = "feed" /\ FeedNext
       /\ UNCHANGED <<viewVars, topologyVars, selectorVars>>

allHooks == <<viewVars, topologyVars, selectorVars, feedVars>>

DashboardSpec ==
  /\ DashboardInit
  /\ [][DashboardNext /\ UNCHANGED about]_<<allHooks, about>>
  /\ ViewFairness /\ TopologyFairness
=============================================================================
