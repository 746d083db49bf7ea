SPECIFICATION DashboardSpec
CONSTANTS
  Widths = {0, 400, 1000}
  Height = 600
  Panels <- MCPanels
  CanvasCenter = 2000
  Targets = {2300}
  Extent <- MCExtent
  Points = {100, 108, 300}
  Budgets <- MCBudgets
  Ids = {i1}
  Statuses = {healthy, probing}
  ChainIds = {eth}
  Heights = {5}
  MaxEvents = 3
  BoxProfiles = {p1, p2}
  BoxChains = {c1, c2}
  Strategies = {balanced, fastest}
  LoadBalanced = balanced
  MaxChoices = 4
  Room = 2
  MaxRows = 5
  Times = {1, 2}
  MaxSteps = 5
INVARIANTS
  ViewInStep
  EndpointAgrees
PROPERTIES
  GesturesHold
  FocusEndsInTheOpen
  EventuallyFramed
  StatusConverges
  RestingReaderStays
CHECK_DEADLOCK FALSE
