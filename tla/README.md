# TLA+ verification of Lasso

Lasso is an Elixir/OTP application that routes Ethereum JSON-RPC requests over many
upstream providers, with a dashboard whose browser part is JavaScript. This directory holds TLA+ models of its concurrent parts, the TLC
configurations that model-check them on small instances, and TLAPS proofs for every value of
the constants. Source paths below are relative to the repository; `lib/lasso/core` is
abbreviated `core`.

## Inventory

Each part: the state it keeps, what changes it, whom it talks to, what is hard, and what must
hold.

**Local head policy** (`core/request/head_policy.ex`). One ETS row per (profile, chain): an
accepted height, its hash and an epoch (fence, establishing upstream, revision). Request
processes insert, read, conditionally replace and read back the row without any lock; the
publication runtime fences and releases it. Hard: every ETS call is a separate step, so
requests, a fence and a release interleave between any two of them. Must hold: sequential
continuity (a request never answers below an answer given before it read the floor), a fence
revokes every older snapshot, the hash at a height is revised only by the upstream that
established it, and the height a fence reports covers every answer.

**Block publication** (`core/block_publication/`). One PostgreSQL record per scope (revision,
epoch, phase, members with their boots, published and candidate block, ready and closed maps),
changed by transitions inside a transaction (`publication.ex`, `postgres.ex`); one `Gate` ETS
snapshot, one `Runtime` process and one boot identity per node; PubSub broadcasts and a
periodic inventory carry snapshots from the record to the nodes. Hard: nodes act on stale
snapshots, broadcasts are lost, duplicated and reordered, acknowledgements race with a newer
close, nodes crash between closing their gate and acknowledging, a restarted boot meets its
own earlier acknowledgement. Must hold: the fleet serves one block at a time and never an older
one after a newer; a block is only published after every member closed its gate; local answers
given before a scope is published never exceed the published floor.

**Head recovery** (`core/request/head_recovery.ex`). A persisted hint of the last local height;
it affects provider preference only.

**Circuit breaker** (`core/support/circuit_breaker.ex`, `circuit_breaker/`). A GenServer per
(provider, transport) with a closed, open and half-open state, a published ETS snapshot that
admission reads without the process, one lease row for the half-open probe, receipts for admitted
calls, a ring of control results, recovery timers. Hard: admission on a stale snapshot, late results
of an earlier generation, a probe whose process or owner dies, timers that fire after the state
changed. Must hold: no result of an earlier generation closes a recovering breaker, at most one probe
runs, its lease comes back, every open breaker is eventually tried again.

**Request pipeline** (`core/request/`: `request_pipeline.ex`, `request_owner.ex`,
`execution_*.ex`, `byte_budget.ex`, projections). One owner process per request with a deadline,
retries over candidates, byte accounting shared by all requests. Hard: an answer racing its
timeout, a retry after a late answer, the release of a budget when a process dies. Must hold:
one terminal outcome per request, every reserved byte is released once, the budget never
exceeds its limit.

**Attempts and transport** (`core/transport/`). The attempt protocol between an owner and a
transport, upstream admission slots, HTTP dispatch tracking, WebSocket connections with pending
requests and reconnects. Hard: a cancelled attempt's answer, slot release on crash, reconnect
with requests pending. Must hold: a slot is held by at most one live attempt and always
returned; a late frame is not delivered to another request.

**Selection** (`core/selection/`). Pure ranking and filtering of candidates over ETS read
models; a candidate cursor that walks tiers once; exploration budgets. Must hold: no candidate
is tried twice in one walk, none that is eligible is skipped.

**Streaming** (`core/streaming/`). Upstream subscriptions shared by clients, a coordinator per
(profile, chain, key) that fails over between providers, backfills gaps, drops duplicates, and a
client registry. Hard: failover during backfill, late events of the old provider, clients that
leave while a subscription is being confirmed. Must hold: heads are delivered in order and once;
a failover that completes leaves no gap below its budget; no upstream subscription without a
client outlives its teardown.

**Block sync and observations** (`core/block_sync/`, `core/observations*`, `head_comparison`,
`block_time_measurement`). Workers poll or subscribe to heads and publish observations; derived
heights and lag. Hard: the switch between the WebSocket and the HTTP strategy, stale timers.

**Providers and catalog** (`lib/lasso/providers/`, `core/providers/`). Instances shared by
profiles, catalog snapshots, probes and health counters.

**Provider knowledge** (`core/provider_knowledge/`). Learned provider properties, exchanged
between nodes as snapshots; decayed counters and histograms.

**Projection lanes and benchmarks** (`projection_lane.ex`, `core/benchmarking/`). Bounded queues
that fold request facts into read models, shedding load at their limits.

**Configuration** (`lib/lasso/config/`, `core/support/credential_health.ex`). Profiles and chains
in ETS, reload and runtime registration.

**Cluster topology** (`lib/lasso/cluster/`). Which nodes are connected and responding.

**Web layer** (`lib/lasso_web/`). Controllers, batches, the client socket with its subscriptions,
the LiveView process of the dashboard.

**Load tester** (`assets/js/lasso_simulator.js`, `lib/lasso_web/components/simulator_controls.ex`,
the `SimulatorControl` hook of `assets/js/app.js`). Finite runs of HTTP requests and WebSocket
subscriptions in the operator's browser, a manager that lists them, a hook that reports them to
the panel, which is a component of the LiveView process. State: per run its counters, sockets,
pending subscriptions and three timers; per hook the profile and the recent calls; per panel what it was last
told. Hard: responses, timers, socket events, clicks, patches and the loss of the socket come in any
order, and the page, the runs, the hook and the panel live and die separately. Must hold: the
counters account for every request and subscription, a run reports once and ends, the panel
comes to rest, and only the profile that is shown is loaded.

**Dashboard hooks** (`assets/js/app.js`). `DraggableNetworkViewport`, a camera moved by mouse, fingers,
wheel, animations, layout and server events; `NetworkTopologyStatus`, statuses and heights pushed as deltas and
drawn on nodes that patches replace; `EndpointSelector`, the endpoint box LiveView never renders
again; `ActivityFeed`, the scroll of a list that grows at its top. Hard: every one keeps state that LiveView does
not know of on a page LiveView patches. Must hold: what is drawn agrees with what the hook knows
and, in the end, with what the server knows.

**Metrics export** (`scripts/export_metrics_csv.mjs`). Fetches metrics, writes CSV or JSON, prints a
report with advice. Must hold: the file reads back as the rows, the advice follows from them.

**Observability** (`lib/lasso/core/telemetry`, metrics, tracing). Counters and logs.

**Feature map scripts, build configuration** (`scripts/feature-map*.mjs`, `assets/tailwind.config.js`).
One-shot documentation checks and a static file.

## Modules

| Module | Models | Status |
| --- | --- | --- |
| `HeadPolicy`, `HeadPolicyProofs` | the local floor of one (profile, chain) | checked and proved |
| `Publication` | the publication record and its transitions, as guards and functions | lemmas proved in `BlockPublicationProofs` |
| `BlockPublication`, `BlockPublicationProofs` | record, gates, runtimes, tasks, crashes, operator of one scope | checked, safety and refinement proved |
| `FleetHead` | what publication promises to a client of the fleet | implemented by `BlockPublication` (proved) |
| `CircuitBreaker`, `CircuitBreakerProofs` | one breaker: owner, ETS rows, request processes | checked, types and every safety property proved |
| `RequestAttempt`, `RequestAttemptProofs`, `AdmissionProofs` | attempts of a request over HTTP: owner, task, checkout, gate, tracker, admission, delivery | checked, types and every safety property proved |
| `Simulator`, `SimulatorProofs` | runs of the load tester and their manager | checked, safety proved |
| `SimulatorPanel`, `SimulatorProofs` | composes `Simulator` with the hook, the socket and the panel | checked, safety and refinement proved |
| `Viewport`, `DashboardProofs` | the camera over the topology | checked, safety proved |
| `TopologyStatus` | statuses and heights from the LiveView process to the nodes | checked |
| `EndpointSelector`, `DashboardProofs` | the endpoint box | checked and proved |
| `ActivityFeed`, `DashboardProofs` | the scroll of the activity feed | checked and proved |
| `MetricsExport`, `MetricsExportProofs` | the export script | checked and proved |

The `MC...` modules give the constants their finite sets and select the behaviours of a run; `MCDashboard` puts the hooks side by side. Operators
marked as a mutant or a variant are plausible mistakes in the definition that follows them; none is
part of a specification, each is what one property is there to catch.

### HeadPolicy

`row` is the ETS row with its epoch (fence, source, revision); `ref` counts `make_ref()`; `req[p]` is
what a request carries; `rt` is the publication runtime inside `fence_local` or `release_local`; `gate`
is what `Gate.read` answers. Each ETS operation is an action: `Begin` is `insert_new`, `Snapshot` the
`lookup`, `Replace` the two `select_replace` calls of `advance` (one of whose match specifications can match a
given response), `Confirm` the `lookup` that decides the answer, `FenceLookup` and `FenceSwap` the loop
of `fence_local`, `Release` the restore. Providers answer anything. `best` and the `owed`, `crossed`
and `stale` fields are history. The ages of headers are one nondeterministic rejection.

### Publication, BlockPublication, FleetHead

`log[r]` is the record that was committed r-th, so a stale snapshot is an index into `log`, and a lost, repeated or late
broadcast is `Deliver(m, r)` for some old r, at any time or never. `node[m]` is the
runtime, tasks and gate of the current application start of a member; `local[m]` its local floor.
`Install` is `install_and_publish` with the floor release that follows it; `Progress` is what every
handler of `runtime.ex` ends with, and is part of each handler's action. Background tasks (`Acknowledge`,
`ProposeBlock`, `ReportReady`, `AbortEpoch`) compare with the record when they reach it. `Retire`, `RestartRuntime`,
`Restart` are shutdown, supervisor restart and death of the application; `FenceExternally` is the
operator's statement that a boot has stopped, which is why it only names a boot that has.
`FleetRegister` states that record and gates refine `FleetHead`: `cur` is the published block, `offered`
the blocks any gate would answer with.

### CircuitBreaker

`breaker` is the GenServer's struct, and its snapshot row (rewritten by every change of the former);
`lease` the half-open lease row, `ring` and `ready` the control ring and its wake-ups, `attempts` what
the owner remembers, `pc[c]`, `receipt[c]` and `queue[c]` a request process and its messages to the
owner, in order. A handler of the owner is one action (`HandleMessage`, `Down`, `ControlReady`,
`ControlAudit`, `ProactiveRecovery`, `Reconcile`), with the one exception the code makes observable: the
owner may die between inserting the lease row and replying (`CrashGranting`). Lock-free steps of request
processes are actions of theirs: `Admit` reads the snapshot, `Activate` and `AbandonUnclaimed` are
compare-and-set on the lease row, `FinishServing` an enqueue. Time is three-valued (no deadline, ahead, passed).

### RequestAttempt

| State | Code |
| --- | --- |
| `phase`, `try`, `mail`, `stopped`, `outcome` | the request process: `request_owner.ex`, its mailbox, the committed fact |
| `gate`, `deadline` | the dispatch gate (an `:atomics` word) and the attempt's deadline with its cutoff timer |
| `task`, `killed`, `token`, `held`, `verdict` | the transport task, what it read from the tracker, the terminal candidate it will return |
| `checkout`, `session`, `written` | the checkout task inside `finch.ex`, the evidence its telemetry left, whether bytes left |
| `tracker` | `dispatch_tracker.ex`: handlers attached, status published, incarnation |
| `lease`, `calls`, `inflight` | `upstream_admission.ex`: leases, the worker's mailbox, the node-wide counter |
| `safety`, `kept` | what a request may repeat (`execution_safety`, with the policy of the chain), `last_attempt_error` while it holds a lease |
| `guarded`, `caller`, `inbox` | batch or socket that works through a guarded owner, and its mailbox |

`Receive`, `Drain` and `Settle` are the three receive loops of the owner, `Finish` is `finish` with
`cleanup_task`, `drain_retired_attempt` and `handoff_result`, `Decide` and `Answer` what the pipeline does with
an outcome. `Retry` and `EndRequest` are the two ends of `Decide`. What a request may repeat has three values. A read may run twice. A raw
transaction, and every call known only by its signed bytes, may not, and reaches one upstream. On a chain with a transaction policy, a
call that its method names as a raw transaction (`policy_send`) has identical bytes sent again: `policy_send_outcome` makes an outcome that
may have run eligible for the next candidate, up to three dispatches (`capture_routing`, `DispatchLimit`), of which one that proved
undispatched is given back (`Spent`); a synchronous send ends with an indeterminate error once it may have timed out upstream
(`TimedOut`). Such a request also keeps the leased error of an earlier attempt until a later one is dispatched (`retire_last_error`, `kept`), and
may answer with it when the candidates run out (`Reply`). A killed task keeps taking steps until `TaskDies`. Down messages are
sent for processes that hold a lease, and at once by a monitor on a dead one, as the BEAM does.

### Simulator, SimulatorPanel

A method of `SimulatorRun` is an operator from the run's record to its record (`Stop`, `FinishStopWhenDrained`,
`FinishWsSubscriptions`), so that a callback of the browser is one step that composes what it calls, as
JavaScript runs it. `loading` is `httpController` and its interval, `asked` the map of pending
subscriptions; `fired`, `outstanding` and `handshakes` are history. `StartFails` is a WebSocket constructor that
throws after some sockets exist. `SimulatorPanel` adds the hook, the two directions of the LiveView socket
as queues and the component's assigns. `Told` passes the final activities of a step through `trackActivity` in the
order they are logged, asking the manager about the runs as they are at that moment: at the end of the callback of one run
(`PagesAtEnd`), or while `stopAllRuns` is part of the way (`PagesInBetween`).
The pushes one callback makes in a row travel together, and a click reaches the component at once, which lets
it overtake pushes that `send_update` forwards.

### Viewport

`view` is the transform in pixels and percent along one axis; `shown` the copy on the document element that
survives the hook; `gesture` the fields mouse and touch handlers share; `frames` the animation frames requested, of
which `animation` is `animationId`; `framing` the retries of `mounted` and the ResizeObserver; `canvas` what JS put
on an element that a patch may strip or replace. `ghost` is what the reader knows of the press. `Relayout` is
the browser's: panels that settle, the details panel that opens.

### TopologyStatus

`session` is the LiveView process, `down` its diffs in order (a patch and the events after it), `asked` the
requests for a snapshot. `Receive` is one diff with every callback it causes: `mounted`, `updated`,
`reconnected` or `destroyed`, then the event handlers. `Redraw` is the animation frame of `updated`. The branch that
retracts a height (a null in `chain-blocks`) is left out: `dashboard.ex:1547` sends the number of a new block.

### EndpointSelector, ActivityFeed

A URL is its profile, strategy and chain. Another chain is another box (its id holds the chain), so
`mounted` runs; a switched profile only changes data attributes, so `updated` runs. The feed counts in rows;
a scroll event is delivered some time after the scroll it tells of (`Told`). The hook knows a row by `data-event-id`, which is the millisecond of its
event (`dashboard.ex:827`, and `activity_feed_panel.ex:37` of a panel with the same markup). Events of one batch, and of
several nodes, share times and come in any order, so a row has a number, which only the properties see, and a time, and the anchor is found as `querySelector` does, as the
first row of its time (`IsFirst`). `Switch` empties the list for another profile.

### MetricsExport

Texts are sequences of numbers, one of which is the quote, one the comma and one the line end; `localeCompare` is
the lexicographic order of these numbers. `table` is the array of rows in `run()`. `sort()` is stable, so `Sorted` gives each row its place
behind the rows that go before it; what the report sums up is a set of rows by their places (`Of`, `OfMethod`, `Busy`), and averages
are compared as products. The server lists a provider from its first call on (`benchmark_store.ex:1348-1371`), hence
`calls` is positive in `ExportAssumption`. A failed `writeFile` leaves no file in the model; on a disk that fills up it may leave the beginning of
one, with exit status 1. The properties hold their own reader of comma-separated values (`Read`),
which the writer never uses.

## Runs

| Run | Question |
| --- | --- |
| `head_policy` | Do raises, hash revisions, a fence and a release, interleaved at every ETS operation, keep answers from falling, and revoke stale snapshots? |
| `publishing` | First publication, orderly retirement, disable and enable, enlisting, crashes and fenced boots, over lossy and reordered notifications: one rising register, never beside local answers? |
| `reconciling` | Do the reconciliation timers alone finish a barrier and release a disabled scope? |
| `missed_disable` | Does reconciliation recover a missed disable after a runtime restart? (No: finding.) |
| `breaker` | One probe, a tracked lease, a true in-flight count, a recovery in order, with every actor at once. |
| `breaker_recovery` | Does an open breaker always leave open, and every lease come back? |
| `lost_timer` | Does an open breaker recover without traffic? (Not always: finding.) |
| `attempts` | Is an outcome final and true to what was written, a raw transaction sent once, or under a policy within its limit and never after an answer, every lease charged to somebody who reads it, every request ended? |
| `tester` | Do the accounts of the load tester balance, do runs end and report once, does the panel come to rest and keep to its profile? |
| `dashboard` | Does what each hook shows agree with what it and the server know? |
| `feed_jumps` | Does the activity feed preserve the position of a reader? (Not always: finding.) |
| `export` | Does the exported file read back, and does the advice follow from the figures? |

### Bounds

- `head_policy`: two requests, sources, hashes and heights, four references beyond the first. Every conflict in the code is
  between two writers of the row; four references allow a first insert, a raise, a revision and a fence.
- `publishing`, `reconciling`: two members, two heights, up to eight records. A scope behaves
  differently only by stage, so each behaviour starts in the stage its scenario is about (never published,
  serving, with a member just rebooted, disabled) with all older deliveries done, and `Records` leaves room for a whole barrier
  after a first start, a reboot, an enlisting and an enable; a crash during a barrier and a disable have six
  records, too few for the one that follows them. Two hashes are used where the first block is chosen, one elsewhere.
- `breaker...`: two request processes that are reused, a failure threshold of two and a success
  threshold of one, a ring of one slot, four generations (closed, open, half-open, open again or closed) and one
  restart. A ring of one slot is full at the second failure, so drops happen.
- `attempts`: one request, three tries, two dispatches under a policy (three in the code: two leave a try for an attempt that
  was not dispatched and its lease still kept), one node-wide lease, one repair of the telemetry handler. Four scenarios share the
  run: "deaths" (callers, owners and parents die) and "handler" (the handler is lost) start at the last try of a raw transaction, where every
  process and message of one attempt is in play; "retries" plays its last two tries without disturbance; "resends" plays all
  tries of a policy send that works for a caller. In that one, attempts before the last end in time and in one of three ways each
  (refused, ambiguous, and a transport failure in the first or a failure before dispatch in the second), tasks have ended
  when the next try starts, and processes die between two tries while an error is kept (`FewWays`, `BetweenTries`);
  the proofs need none of this. A read is part of `Spec`, not of the run. 569,313 distinct states.
- `tester`: every behaviour keeps to one of five plans: one run with two sockets; one with two
  requests; two runs over a switch of profile; two runs over a lost socket or page; one run with a socket and
  a request over a change of chains. Two runs suffice for overlap, since runs share nothing but the manager's map.
- `dashboard`: a behaviour is about one hook, as hooks share no state. The camera has three budgets: five
  pointer events on a settled page (a pinch and the drag it hands over take five), three changes of the page,
  two changes and one input. Widths are an unsettled layout, a phone and a desktop. One provider, two statuses, three batches,
  switches or disconnects; four choices in the endpoint box; five rows of two times, of which two are visible, and five updates and scrolls.
- `export`: all answers of one or two methods with names that need quotes, and all with two providers whose
  figures compare either way.
- Runs set `CHECK_DEADLOCK FALSE` because the bounds, and requests that have ended, stop the models.

### Fairness

- Publication: weak fairness of `Reconcile` (a timer that re-arms itself) and strong fairness of
  `Acknowledge` (a task that is retried until the database answers). None for broadcasts.
- Breaker: the owner's handlers, its timers, its restart by the supervisor, the time-outs of
  callers, the end of a request. None for traffic, operators, probes. `Exhausted` excuses behaviours that end at the
  bound on generations.
- Attempts: steps of the owner, its task, the worker and a living caller; timers and kill
  signals. None for the socket, for deaths and for the telemetry handler: `RequestsEnd` holds when the
  upstream never answers, because of the deadline.
- Load tester: the duration and drain timers. None for responses, sockets and clicks: a run ends also when
  the node never answers.
- Dashboard: animation frames and the ResizeObserver of a mounted hook; diffs and requests on a live socket. That a lost
  connection comes back is not assumed.

## Proofs

All proofs are for arbitrary constants that satisfy the named assumptions.

`HeadPolicyProofs` shows, besides type correctness, sequential continuity, that the row covers every answer, that a
fenced snapshot never answers, and that only the establishing upstream revises a hash. The properties
themselves are not inductive: a request may be about to answer from a snapshot taken before the row
was fenced. `Inv` adds what a snapshot says about the present row (`SnapshotInv`: fences and revisions are
fresh references below `ref`, a crossed snapshot has another fence than the row, a stale one another
revision) and what the row says of history (`RowInv`). One lemma per kind of step feeds `InvStep`.

The first part of `BlockPublicationProofs` is about one record: `RecordInv` says what each phase implies for the other fields, and
`Evolves(s, t, by)` is what a command, in which the boots `by` take part, may do to a record: a command keeps what the fleet
serves, drops it (once every active member has closed or was fenced) or publishes the candidate of a closing barrier, and a new barrier
starts in a new epoch with no acknowledgement. One lemma per command proves it, so that nothing below unfolds a command again.

The second part shows `TypeOK`, the three safety invariants of the fleet and `FleetRegister`, for any members, boots, blocks
and number of records. None of the invariants is inductive: a snapshot that is still to be delivered may be any
committed record, so what a gate will do depends on what lies in the log behind it. `Inv` therefore has two parts. `LogInv`: adjacent records evolve, hence epochs
and heights rise along the whole log. `MemberInv`, per member: boots in a record are known and a fenced boot has stopped; a member that
a record counts as closed, and that still runs, has installed that change of its gate (`ClosedInv`); an active gate is past every
disabled record of its epoch; what a gate may open is published or older than its own closing; the local floor is fenced, or no barrier
relies on it (`FloorInv`). `MemberGrows` shows that a new record keeps all of this for every member it admits; the remaining lemmas are
one per action of a member. For the refinement, only the acknowledgement that completes a closing barrier changes
the published block, when every gate is closed, which is the one step of `FleetHead` that advances the register; every other step offers less
or the same.

`CircuitBreakerProofs` shows that at most one recovery attempt runs, and that a serving owner remembers the
attempt of its lease row. For the first, `Inv` = `Shape`, `ProbeHoldsTheRow` (who runs an attempt holds
the row) and `NothingUnderWay` (nothing it sent is left in a mailbox that could free the row under
it); without the last, a message of an earlier life would refute the step. For the second,
`RowIsRemembered` extends the property to an owner that has started and not yet reconciled.

Types, `InflightIsReal` and `RecoveryInOrder` need more, `Books`. Whether a message takes an attempt off the count depends on what
was written where and when, so `Books` says of each process which backlogs of messages it can have (`BacklogAt`), that its receipt is
not of a future generation (`ReceiptAt`), that what the owner remembers of it is the row, or was given up and told (`AttemptAt`), and that a
row of the present owner has a process on it or a message under way that frees it (`WayBackAt`); of the shared rows, that
a success lies in the ring of a closed breaker only and a fired timer means a passed deadline (`RowsInv`). The struct's
own transitions are summed up once by `Advances`: they keep generation, phase and count together, or start a new generation at zero. What a drain
does is a recursive function over the ring; the library's induction theorems take an operator as a parameter, so `DrainSteps`
takes the least index at which the fact would fail (`LeastNumber`, from the well-foundedness of `<`).

`RequestAttemptProofs` shows that a committed outcome is final. The property is not inductive: that
nobody touches an attempt that has an outcome needs `CommittedIsShut` (its gate is closed, and every operation of a
gate leaves a closed one alone), `UndecidedIsUncommitted` (a request commits only from the phases that precede a
commit) and `LaterIsUncommitted` (its later attempts have no outcome when their turn comes).

It also shows `DispatchIsTruthful`, which speaks of outcomes and sockets, two ends of a long chain. `Known` holds of each attempt along it:
what the session of the tracker says of the socket while its handler is the one the task read (`SocketInv`), what the gate has
seen (`GateInv`: a gate that saw nothing has an unsent socket, also when the checkout was killed), and what the verdict of the task
claims (`VerdictInv`). `OutcomesInv` carries it to the request: an outcome of "not dispatched" has a gate that saw nothing, which
is shut by then, so no late write can refute it. `RetryInv` says why a request tries again: no earlier attempt ended with an answer, and the dispatched ones before the present are
fewer than its limit, so that the present one may be one more. A socket that was written belongs to a dispatched attempt, hence the bound on upstreams. Known facts are lost
only with the token of the tracker's handler, hence `token[a] <= tracker.token`.

`AdmissionProofs` shows that the node-wide counter is the number of leases in use and within its limit. The worker
counts when it serves a call, so `Accounts` says that an attempt asks once (`AcquiredOnce`), not while a lease
of it is in use (`AcquiredBeforeUse`), and not before its task has started (`UnaskedIsUnused`, `NotStarted`). A
second call for the same attempt would count one lease twice. It uses `Inv` of `RequestAttemptProofs` and the
theorems of the library on finite cardinalities. `TypeOK` follows from the invariants of both modules and the types of the leases.

`ChargeHasReader` needs `ChargeInv`. A message that is still to be served decides what becomes of a lease, so each has its
reason (`ProperInv`: a release follows the end of its task, a down message the death of its sender, a transfer goes to the
request's own processes), a task that holds a lease asks for no other (`HeldAsksNot`, `HeldInv`), and
a lease has a holder that lives or whose down message is under way (`HolderInv`). `ChargedInv` follows every attempt whose answer is worked on (`Answering`) from
the verdict of its task through the mail of the owner to the outcome, and on while a policy send keeps it: its lease is the reader's all
the way and no release of it is under way. That a kept answer is of an earlier attempt (`KeptInv`) is why giving it back
touches no other. A completion read twice would release what the reader reads, hence `MailOnce`.

`SimulatorProofs` shows the types, `RunAccounts` and `FinalOutcomeRetained` for any number of runs, sockets, topics and
requests. `RunAccounts` is almost inductive: what is missing is that a stopped run has hung up (`HungUp`: after `stop` no
socket is open or connecting), without which a late `onopen` would ask for subscriptions again. Each method of
a run has a lemma that it keeps the accounts, so a callback's step is the chain of its calls; `Retains` does the
same for the outcomes a run reports.

It also shows `PanelComesToRest` and `PanelKeepsToProfile`, for any runs, profiles and queues of any length. Both speak of a panel whose pushes
have arrived, and a push may be lost sight of behind others, so `PanelInv` speaks of where the queues lead: `Ends(u, f, old, G)` says that field
`f` of the panel, now `old`, is in `G` once the pushes `u` are applied. `CallsEnd` says so of the recent calls (all of the hook's profile),
`RestEnds` of the statistics and the running flag when no run of the profile is left, unless a start is on its way. For a start to be of
the profile the hook will have by then, `DownFits` follows the patches in front of it. A lost socket takes both queues with it. What a callback
pushes is a recursive function over the runs it stops; `DrainSteps` of the breaker and `Told` here are reasoned about in the same way, by
the least index at which the fact would fail. `PanelRunsTheTester` is the refinement: every step of the panel is a step of `Simulator` or
leaves the runs alone, so the accounts and reports proved there are those of the runs the panel starts and stops.

`DashboardProofs` is about three hooks. For the camera it shows `ViewInStep`, `GesturesHold` and `FocusEndsInTheOpen`, for any sizes, panels,
targets and points. `ViewInv` adds types (a scale between the limits can be divided by), `PageInv` (the labels are written from the
first width the observer has seen) and `GestureInv`: two fingers always pinch, and one finger that nothing disturbs has its
point under it. That a focus ends in the open is geometry (`OpenGround`: the middle of the box that the panel leaves is not behind the
panel) and needs `PanelAssumption`, that the panel leaves a pixel above or below it: its style limits it to three quarters of the height.
For the endpoint box it shows `EndpointAgrees`. The property says nothing of the hook's fields; `Drawn` does
(an open box has the chain and profile of its data attributes, the choice is the hook's strategy, and the page is drawn from them).

For the feed it shows `RestingReaderStays`, for any length and any limit of the list and any times of the events, repeated ones too: the reader is
left on the first row of the time he reads, which is his own row unless one above shares its time. `FeedInv` says that an
auto-scrolling reader who has not touched the list is at its top, and that for a paused one the saved anchor is the time and the place of the
row at the top. The last would not survive a scroll, which `feed_jumps` shows. `FirstIsFound` is the search of `querySelector`: what
it returns is the only first row of a time.

`MetricsExportProofs` shows `FileReadsBack` and `ReportIsSound` for any answer: any number of methods and providers, any
names, any figures. `ExportInv` is short (the table is the answer's, the file and the report are the table's, the status says how far the
script came); the work is in what the algorithms compute. Each is a loop, a recursive function here. `LoopExists` shows that such a
function exists and `EveryRound` what holds of all its rounds, both by the least round at which it would be otherwise.

- Sorting. Texts are totally ordered (`TextsAreOrdered`), hence rows are ordered up to ties (`RowsAreOrdered`), hence every row has a place of its
  own and every place is taken (`EveryPlaceIsTaken`). `SortedIsGrouped` and `TableIsExported` follow; the second pairs off
  the places of a row with the figures it comes from.
- The file. `Reads(r, s, q)` says that a reader at `r` is at `q` after the text `s`; pieces compose. The reader is outside quotes, inside
  them, or behind a quote that may close them. `EscapedReads` is about one field, `LineReads` about a line, `FileReads` about the file.
- The report. Latency per call orders the providers because calls are positive (`RatiosAreOrdered`); with a preorder the first of the least
  exists (`FirstExists`), for the fastest provider as for the best row of a method. `NumbersCount` goes through the cases of the recommendations.

Only model-checked are the liveness properties, since fairness and ENABLED are beyond the prover: that barriers complete
(`BarrierCompletes`), disabled scopes are released (`DisabledScopeReleased`), an open breaker recovers (`Recovers`) and its lease comes back
(`LeaseComesBack`), requests and runs end (`RequestsEnd`, `RunsEnd`), a canvas is framed (`EventuallyFramed`) and the drawn
topology converges (`StatusConverges`, the only property of `TopologyStatus`). Every safety and action property of a passing run is proved.

## Findings

1. `missed_disable`: a runtime that restarts, or first reads, after a scope was disabled never learns of it
   (`postgres.ex:125-136` leaves disabled rows out for scopes it does not track); its floor stays fenced.
2. `lost_timer`: the busy branch of an admission cancels the recovery timer of an open breaker.
3. `feed_jumps`: the activity feed saves its anchor only at updates, so the first update after a scroll moves the
   reader, and a later one may undo his scroll.

Seen while modelling, and stated by no run:

- Breaker: a dropped signal makes an open breaker half-open before its deadline (`circuit_breaker.ex:1398`, which
  `RecoveryInOrder` allows for a degraded ring only); a report of another generation through `call/3` does not return the
  lease (`:1117`), which comes back when the process ends.
- Attempts: `handoff_result` moves the lease to the caller before delivery (`request_owner.ex:497`), so a worker killed in
  between leaves the bytes charged to the caller until that ends (`Stranded` in `RequestsEnd`).
- Tester: a socket that closes before it opened takes one from the count of open sockets (hence the inequality in
  `AccountsForSockets`); cleared logs come back with the next push, since the hook is not told; late responses of a stopped run appear among the
  recent calls of the next; after a reconnect the panel of a running load is idle until the next statistics.
- Feed: a reader who rests on a row below another of the same millisecond is moved to the first row of that time by the next update
  (`app.js:168` with `dashboard.ex:827`), since the id the hook tracks "a specific element" by (`app.js:163`) is a time. It is why
  `RestingReaderStays` speaks of the time he reads, and `PositionPreserved` of rows with no other of their time above them.
- Hooks: the class of the labels is toggled at mount before its thresholds exist; nodes that come back after an empty topology recentre
  a view the reader had moved (`app.js:602-612`); the endpoint box replaces a row the server rendered as unavailable; after a
  switch of profile heights of the old one stay until the next block; no server code sends the retraction of a height `app.js:1567` describes.
- Export: `transportOrder[...] || 999` takes the 0 of http for absent, so http sorts after ws, against the comment
  (`export_metrics_csv.mjs:182`); a provider whose calls all failed has an average latency of 0 (`benchmark_store.ex:1361`) and is advised as
  the fastest; a number is skipped in the recommendations if no provider has ten calls; a carriage return is not quoted.

## Not modelled

- Publication: what a probe asks of providers (any block it could report is allowed), header validation and the handoff
  of a read to a provider.
- Breaker: thresholds per error category, back-off lengths, the ring below the grain of one enqueue or one drain.
- Attempts: response bytes and their limits, several admission workers and their crash, exploration
  attempts, JSON validation, candidate choice, claim audits and null recovery (which add attempts of reads only), the log-range error, which replaces the answer of a read. A request has `Tries` candidates.
- WebSocket transport, streaming, block sync, selection, byte budget, projection lanes: planned below.
- Tester panel: the form of rate, duration, chains and strategy; averages of latency.
- Hooks: `CollapsibleSection`, `EventsFeed`, `ExpandableDetails`, `ProfilePersistence` and `CopyButton`, each one listener or
  timer without shared state; the provider mode of `EndpointSelector`, for which no template renders a button; `centerOnFirstChain`,
  which nothing calls; hover labels and pulses.
- Export: parsing of arguments, the layout of the report, success rates. Feature map scripts and the stylesheet
  configuration: no state.
- Providers, catalog, configuration, provider knowledge, topology, parsing, web presentation and observability:
  tables rebuilt from configuration, advisory statistics, pure parsing or input and output. They decide which
  candidate is asked, which the models leave open.

## Plan

1. WebSocket transport: authorise, latch, write, tombstone, late frames, reconnection with requests pending
   (`WebSocketAttempts`), against the same promise as the HTTP attempt: an abstract `DispatchOnce` both implement.
2. `ControlRing` at the grain of its ETS and atomics operations: no lost wake-up, refinement of the ring of `CircuitBreaker`.
3. Streaming: coordinator failover and backfill (`StreamFailover`: heads in order and once, no gap within the budget),
   then the subscription pool and its teardown.
4. `ByteBudget` (exact accounting under crashes), admission workers with their dirty restart, candidate cursor
   as a function with its reference definition.
5. Proofs: the invariants of the modules above as they are written.
