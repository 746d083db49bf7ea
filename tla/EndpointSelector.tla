--------------------------- MODULE EndpointSelector ---------------------------
(***************************************************************************)
(* The endpoint box of the chain panel: the EndpointSelector hook of       *)
(* app.js.  LiveView renders the box once for a chain and then leaves its  *)
(* content alone (phx-update="ignore"); only the data attributes follow    *)
(* the server.  What is highlighted, shown and copied is the hook's.       *)
(*                                                                         *)
(* A URL is <<profile, strategy, chain>>.  The panel renders buttons of    *)
(* strategies and none of providers.                                       *)
(***************************************************************************)
EXTENDS Naturals, FiniteSets

CONSTANTS
  BoxProfiles, BoxChains, Strategies,
  LoadBalanced,     \* the default strategy
  MaxChoices        \* bound on clicks and on changes of the panel

ASSUME SelectorAssumption ==
  LoadBalanced \in Strategies /\ MaxChoices \in Nat

VARIABLES
  panel,     \* the data attributes of the box, or Closed
  selected,  \* selectedStrategy, chain and profile of the hook
  buttons,   \* data-state of each strategy's button
  urls,      \* the text of the rows and what their buttons copy; "" is none
  blurb,     \* the strategy the description is about
  chosen,    \* the strategy the reader last chose in this box
  choices

box == <<buttons, urls, blurb>>
selectorVars == <<panel, selected, box, chosen, choices>>

Closed == [chain |-> "none", profile |-> "none"]
NoUrl  == <<"none", "none", "none">>
NoSelection == [chain |-> "none", profile |-> "none", strategy |-> LoadBalanced]
Inactive == [s \in Strategies |-> "inactive"]     \* as rendered

\* Variant: the first profile and chain seen are kept.
FromDatasetOnce(sel, p) ==
  IF sel.chain = "none" THEN [sel EXCEPT !.chain = p.chain, !.profile = p.profile] ELSE sel

\* readChainFromDataset
FromDataset(sel, p) == [sel EXCEPT !.chain = p.chain, !.profile = p.profile]

\* detectActiveSelection: the button that is active, or the choice so far.
Detected(sel, states) ==
  LET active == {s \in Strategies : states[s] = "active"}
  IN IF active = {} THEN sel ELSE [sel EXCEPT !.strategy = CHOOSE s \in active : TRUE]

\* updateEndpointUrls: with a strategy both rows have a URL, whatever the server
\* rendered.
Endpoint(sel) == <<sel.profile, sel.strategy, sel.chain>>

Urls(url) == [http |-> url, ws |-> url, httpCopy |-> url, wsCopy |-> url]

\* updateUI
UpdateUI(sel) ==
  /\ selected' = sel
  /\ buttons' = [s \in Strategies |-> IF s = sel.strategy THEN "active" ELSE "inactive"]
  /\ urls' = Urls(Endpoint(sel))
  /\ blurb' = sel.strategy

Choice == choices < MaxChoices /\ choices' = choices + 1

\* A chain is selected: another chain is another box, with a hook of its own,
\* and mounted() runs.
OpenPanel(p) ==
  /\ Choice
  /\ p.chain # panel.chain
  /\ panel' = p /\ chosen' = LoadBalanced
  /\ UpdateUI(Detected(FromDataset(NoSelection, p), Inactive))

\* The profile of the panel is switched under the box: updated().
SwitchPanel(profile) ==
  /\ Choice
  /\ panel # Closed /\ profile # panel.profile
  /\ panel' = [panel EXCEPT !.profile = profile]
  /\ UpdateUI(Detected(FromDataset(selected, panel'), buttons))
  /\ UNCHANGED chosen

\* The panel closes, and the box goes.
ClosePanel ==
  /\ Choice
  /\ panel # Closed /\ panel' = Closed
  /\ UNCHANGED <<selected, chosen, box>>

\* selectStrategy
SelectStrategy(s) ==
  /\ Choice
  /\ panel # Closed /\ s # selected.strategy
  /\ UpdateUI([selected EXCEPT !.strategy = s])
  /\ chosen' = s
  /\ UNCHANGED panel

SelectorInit ==
  /\ panel = Closed
  /\ selected = NoSelection /\ chosen = LoadBalanced
  /\ buttons = Inactive /\ urls = Urls(NoUrl) /\ blurb = LoadBalanced
  /\ choices = 0

SelectorNext ==
  \/ \E profile \in BoxProfiles, chain \in BoxChains :
       OpenPanel([profile |-> profile, chain |-> chain])
  \/ \E profile \in BoxProfiles : SwitchPanel(profile)
  \/ \E s \in Strategies : SelectStrategy(s)
  \/ ClosePanel

SelectorSpec == SelectorInit /\ [][SelectorNext]_selectorVars

\* What the box shows, copies, highlights and describes is one endpoint: that of
\* the chain and profile of the panel, with the strategy last chosen in this box,
\* over clicks, switched profiles and boxes of other chains.  LiveView does not
\* render the box again, so nothing else would repair it.
EndpointAgrees ==
  panel # Closed =>
    /\ {s \in Strategies : buttons[s] = "active"} = {chosen}
    /\ blurb = chosen
    /\ \A row \in DOMAIN urls : urls[row] = <<panel.profile, chosen, panel.chain>>
=============================================================================
