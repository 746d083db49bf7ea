---------------------------- MODULE TopologyStatus ----------------------------
(***************************************************************************)
(* Provider statuses and block heights on the topology: the LiveView       *)
(* process that computes them (lasso_web/dashboard/dashboard.ex), the      *)
(* channel to the browser, and the NetworkTopologyStatus hook of app.js    *)
(* that keeps and draws them over nodes LiveView replaces.                 *)
(*                                                                         *)
(* The process sends deltas, and only while the overview is shown; the     *)
(* hook asks for a snapshot when it is mounted and when the page           *)
(* reconnects.  A message is one diff: a patch of the page and the events  *)
(* dispatched after it.                                                    *)
(***************************************************************************)
EXTENDS Integers, Sequences, SequencesExt

CONSTANTS
  Ids,            \* providers; a page renders a node for each it has a status of
  Statuses,       \* what the projection says of a provider
  ChainIds, Heights,
  MaxEvents       \* bound on batches, switches, blocks and lost connections

ASSUME TopologyAssumption == MaxEvents \in Nat

VARIABLES
  session,   \* the LiveView process: online, its tab and provider_statuses
  down,      \* diffs on their way to the browser
  asked,     \* request_provider_statuses on their way to the process
  page,      \* the tab shown and what JS wrote on the nodes: titles, heights
  hook,      \* currentStatuses, currentBlocks, pendingApply of the hook
  style,     \* the stylesheet in the head, as the statuses it colours
  events     \* batches, switches, blocks and disconnects so far

topologyVars == <<session, down, asked, page, hook, style, events>>

Removed == "removed"     \* a null in a delta
Plain   == "plain"       \* a node as the server rendered it
Overview == "overview"
Tabs == {Overview, "metrics"}
Empty == <<>>            \* the function of no argument

StatusMaps == UNION {[S -> Statuses] : S \in SUBSET Ids}
DeadHook  == [alive |-> FALSE, statuses |-> Empty, blocks |-> Empty, pending |-> FALSE]
FreshHook == [DeadHook EXCEPT !.alive = TRUE]

Over(f, g) == [x \in DOMAIN f \cup DOMAIN g |-> IF x \in DOMAIN g THEN g[x] ELSE f[x]]

-----------------------------------------------------------------------------
(* The process                                                             *)
StatusEvent(statuses, snapshot) ==
  [kind |-> "statuses", snapshot |-> snapshot, values |-> statuses]
BlockEvent(chain, height) ==
  [kind |-> "blocks", snapshot |-> FALSE, values |-> (chain :> height)]

Diff(tab, statuses, patched, joined, pushed) ==
  [tab |-> tab, ids |-> DOMAIN statuses, patched |-> patched, joined |-> joined,
   events |-> pushed]

\* changed and removed of recompute_provider_statuses
Delta(old, new) ==
  [id \in {i \in DOMAIN new : i \notin DOMAIN old \/ old[i] # new[i]}
          \cup (DOMAIN old \ DOMAIN new) |->
     IF id \in DOMAIN new THEN new[id] ELSE Removed]

\* push_provider_delta, while "tab" is the active one.
PushDelta(tab, old, new) ==
  IF tab = Overview /\ old # new THEN <<StatusEvent(Delta(old, new), FALSE)>> ELSE <<>>

Event == session.online /\ events < MaxEvents /\ events' = events + 1
Browser == <<page, hook, style>>

\* A batch of the event stream: recompute_provider_statuses, and a patch when
\* the topology or what is drawn around it changed.
Batch(new, patched) ==
  /\ Event
  /\ DOMAIN new # DOMAIN session.statuses => patched
  /\ session' = [session EXCEPT !.statuses = new]
  /\ down' = Append(down, Diff(session.tab, new, patched, FALSE,
                               PushDelta(session.tab, session.statuses, new)))
  /\ UNCHANGED <<asked, Browser>>

\* A new head, pushed whatever tab is shown.
Block(chain, height) ==
  /\ Event
  /\ down' = Append(down, Diff(session.tab, session.statuses, FALSE, FALSE,
                               <<BlockEvent(chain, height)>>))
  /\ UNCHANGED <<session, asked, Browser>>

\* switch_tab
SwitchTab(tab) ==
  /\ Event /\ tab # session.tab
  /\ session' = [session EXCEPT !.tab = tab]
  /\ down' = Append(down, Diff(tab, session.statuses, TRUE, FALSE, <<>>))
  /\ UNCHANGED <<asked, Browser>>

\* select_profile: switch_profile forgets the old statuses and computes the new
\* ones under the old tab; without a tab in the URL the overview is shown.
SwitchProfile(new) ==
  /\ Event
  /\ session' = [session EXCEPT !.tab = Overview, !.statuses = new]
  /\ down' = Append(down, Diff(Overview, new, TRUE, FALSE,
                               PushDelta(session.tab, Empty, new)))
  /\ UNCHANGED <<asked, Browser>>

\* request_provider_statuses
Answer ==
  /\ session.online /\ asked > 0
  /\ asked' = asked - 1
  /\ down' = Append(down, Diff(session.tab, session.statuses, FALSE, FALSE,
                               <<StatusEvent(session.statuses, TRUE)>>))
  /\ UNCHANGED <<session, events, Browser>>

\* The connection, and the process with it.
Disconnect ==
  /\ Event
  /\ session' = [session EXCEPT !.online = FALSE]
  /\ down' = <<>> /\ asked' = 0
  /\ UNCHANGED Browser

\* A new process mounts, with the tab of the URL.
Connect(new) ==
  /\ ~session.online
  /\ session' = [online |-> TRUE, tab |-> page.tab, statuses |-> new]
  /\ down' = <<Diff(page.tab, new, TRUE, TRUE, PushDelta(page.tab, Empty, new))>>
  /\ UNCHANGED <<asked, events, Browser>>

-----------------------------------------------------------------------------
(* The browser                                                             *)

\* applyStatuses, on the nodes there are; a ring shows "probing" as well.
WithStatuses(p, statuses) ==
  [p EXCEPT !.titles = [id \in DOMAIN @ |->
                          IF id \in DOMAIN statuses THEN statuses[id] ELSE @[id]]]

\* applyChainBlocks
WithBlocks(p, blocks) == [p EXCEPT !.heights = Over(@, blocks)]

\* The provider-statuses handler.
StatusesAfter(old, e) ==
  IF e.snapshot THEN e.values
  ELSE LET all == Over(old, e.values)
       IN [id \in {i \in DOMAIN all : all[i] # Removed} |-> all[id]]

\* One event, as <<hook, page>>.
Handled(hp, e) ==
  IF e.kind = "statuses"
  THEN LET all == StatusesAfter(hp[1].statuses, e)
       IN <<[hp[1] EXCEPT !.statuses = all], WithStatuses(hp[2], all)>>
  ELSE <<[hp[1] EXCEPT !.blocks = Over(@, e.values)], WithBlocks(hp[2], e.values)>>

\* A patch takes what JS wrote on the nodes.
Patched(m) ==
  [tab |-> m.tab, heights |-> Empty,
   titles |-> IF m.tab = Overview THEN [id \in m.ids |-> Plain] ELSE Empty]

\* Variant: mounted() relies on the deltas that follow.
AsksOnReconnect(m) == m.tab = Overview /\ m.joined

\* Does the hook ask for a snapshot when this diff is applied?  mounted() and
\* reconnected()
Asks(m) == m.tab = Overview /\ (~hook.alive \/ m.joined)

\* updated(): one re-apply is requested, unless there is nothing to draw.
Updated(h, m) ==
  [h EXCEPT !.pending = @ \/ (m.patched /\ (h.statuses # Empty \/ h.blocks # Empty))]

\* A diff: the patch with the callbacks of the hook, then the events.
Receive ==
  /\ session.online /\ down # <<>>
  /\ LET m == Head(down)
         patch == IF m.patched THEN Patched(m) ELSE page
         next == IF m.tab # Overview THEN DeadHook
                 ELSE IF ~hook.alive THEN FreshHook ELSE Updated(hook, m)
         after == IF next.alive THEN FoldLeft(Handled, <<next, patch>>, m.events)
                  ELSE <<next, patch>>
     IN /\ hook' = after[1] /\ page' = after[2]
        /\ style' = after[1].statuses
        /\ asked' = asked + (IF Asks(m) THEN 1 ELSE 0)
  /\ down' = Tail(down)
  /\ UNCHANGED <<session, events>>

\* The frame that re-applies both layers.
Redraw ==
  /\ hook.pending
  /\ hook' = [hook EXCEPT !.pending = FALSE]
  /\ page' = WithBlocks(WithStatuses(page, hook.statuses), hook.blocks)
  /\ UNCHANGED <<session, down, asked, style, events>>

-----------------------------------------------------------------------------
\* The page as the server rendered it, before it connects.
TopologyInit ==
  /\ session = [online |-> FALSE, tab |-> Overview, statuses |-> Empty]
  /\ down = <<>> /\ asked = 0
  /\ page = [tab |-> Overview, titles |-> Empty, heights |-> Empty]
  /\ hook = DeadHook /\ style = Empty /\ events = 0

TopologyNext ==
  \/ \E new \in StatusMaps :
       \/ \E patched \in BOOLEAN : Batch(new, patched)
       \/ SwitchProfile(new) \/ Connect(new)
  \/ \E chain \in ChainIds, height \in Heights : Block(chain, height)
  \/ \E tab \in Tabs : SwitchTab(tab)
  \/ Answer \/ Disconnect \/ Receive \/ Redraw

\* A connection delivers, a process answers, a browser draws frames.  Whether
\* a lost connection comes back is not assumed.
TopologyFairness ==
  WF_topologyVars(Receive) /\ WF_topologyVars(Answer) /\ WF_topologyVars(Redraw)

-----------------------------------------------------------------------------
(* Properties                                                              *)

\* Once nothing changes any more, an overview that is connected shows every
\* provider with the status of the process, in colour and in title, and every
\* height the hook knows: over deltas that were not sent to another tab, profiles
\* switched, patches that took the drawing, and lost connections.
ShownAgrees ==
  /\ DOMAIN page.titles = DOMAIN session.statuses
  /\ \A id \in DOMAIN session.statuses :
       /\ page.titles[id] = session.statuses[id]
       /\ id \in DOMAIN style /\ style[id] = session.statuses[id]
  /\ \A chain \in DOMAIN hook.blocks :
       chain \in DOMAIN page.heights /\ page.heights[chain] = hook.blocks[chain]
StatusConverges == <>[](session.online /\ session.tab = Overview => ShownAgrees)
=============================================================================
