--------------------------- MODULE BlockPublication ---------------------------
(***************************************************************************)
(* One publication scope of a fleet: the journal record, and per node the  *)
(* serving gate, the runtime and the local floor                           *)
(* (lib/lasso/core/block_publication/{gate,runtime,postgres,operator}.ex). *)
(*                                                                         *)
(* The journal keeps its history: log[r] is the record of revision r - 1.  *)
(* Committed records reach a runtime by PubSub, by the result of its own   *)
(* task or by an inventory read; any of them may be lost, repeated or      *)
(* arrive late and out of order.  Runtimes act on the snapshot they hold.  *)
(* A handler of the runtime is one step; a background task is a step of    *)
(* its own when it reaches the journal.  RPC processes read the gate, and  *)
(* answer locally while it is unmanaged.                                   *)
(***************************************************************************)
EXTENDS Publication, Sequences

CONSTANTS
  Roster,       \* configured members
  MaxRevision   \* bound on committed records

ASSUME FleetAssumption == Roster \subseteq Members /\ MaxRevision \in Nat

VARIABLES
  log,    \* committed records, oldest first
  node,   \* gate and runtime of the current application start of each member
  local   \* local floor of each member: fenced, height; guarded requests

vars == <<log, node, local>>

None    == 0    \* no revision
Nothing == -1   \* an inventory without a record

\* A probe task proposes a block, or reports readiness for an epoch.
Task ==
  [kind : {"none", "propose", "ready"}, block : Block \cup {NoBlock},
   epoch : Nat, floor : Heights \cup {0}]
NoTask == [kind |-> "none", block |-> NoBlock, epoch |-> 0, floor |-> 0]
ProposeTask(block) == [NoTask EXCEPT !.kind = "propose", !.block = block]
ReadyTask(epoch, floor) ==
  [NoTask EXCEPT !.kind = "ready", !.epoch = epoch, !.floor = floor]

Node ==
  [boot         : Boots,
   gate         : Nat,            \* revision installed in the gate
   snap         : Nat,            \* revision the runtime holds
   task         : Task,           \* command a probe task is working towards
   ack          : Nat,            \* revision a closure task acknowledges
   inventory    : Nat \cup {Nothing},  \* revision an inventory read returned
   bootstrapped : BOOLEAN,
   retired      : BOOLEAN]
Local ==
  [fenced : BOOLEAN, height : Heights \cup {0}, guarded : BOOLEAN]

Started(boot) ==
  [boot |-> boot, gate |-> None, snap |-> None, task |-> NoTask,
   ack |-> None, inventory |-> None, bootstrapped |-> FALSE, retired |-> FALSE]
Unfenced == [fenced |-> FALSE, height |-> 0, guarded |-> FALSE]

TypeOK ==
  /\ log \in Seq(Record)
  /\ node \in [Members -> Node]
  /\ local \in [Members -> Local]
  /\ \A m \in Members :
       {node[m].gate, node[m].snap, node[m].ack} \subseteq 0..Len(log)

Init ==
  /\ log = <<>>
  /\ node = [m \in Members |-> Started(1)]
  /\ local = [m \in Members |-> Unfenced]

-----------------------------------------------------------------------------
(* The journal. *)

Current == log[Len(log)]
Recorded == log # <<>>

\* command / compare_and_apply: an unchanged record keeps its revision.
Commit(next) ==
  IF next = Current THEN UNCHANGED log
  ELSE Len(log) < MaxRevision /\ log' = Append(log, next)

\* Mutant: a tracked scope is never read again.
InventoryOfNewScopes(snap) ==
  IF Recorded /\ snap = None /\ Current.phase # "disabled" THEN Len(log) ELSE Nothing
\* Mutant: disabled scopes are left out, tracked or not.
InventoryOfEnabledScopes(snap) ==
  IF Recorded /\ Len(log) > snap /\ Current.phase # "disabled" THEN Len(log) ELSE Nothing

\* changes: what a read returns to a runtime that holds snapshot revision snap.
Inventory(snap) ==
  IF Recorded /\ Len(log) > snap /\ (snap # None \/ Current.phase # "disabled")
  THEN Len(log) ELSE Nothing

-----------------------------------------------------------------------------
(* The gate, read by RPC processes. *)

\* Mutant: a gate stays open while a barrier runs.
OpensWhileClosing(s, m, boot) ==
  /\ <<m, boot>> \notin s.fenced
  /\ s.phase \notin {"disabling", "disabled"}
  /\ s.active[m] = boot
  /\ s.published # NoBlock

\* Gate.install: the permission a record gives to a boot.
Opens(s, m, boot) ==
  /\ <<m, boot>> \notin s.fenced
  /\ s.phase \notin {"closing", "disabling", "disabled"}
  /\ s.active[m] = boot
  /\ s.published # NoBlock

\* Gate.read: {:ok, grant} and :unmanaged; a stale block may still be refused.
Readable(m) ==
  /\ ~ node[m].retired /\ node[m].bootstrapped
  /\ node[m].gate # None
  /\ Opens(log[node[m].gate], m, node[m].boot)
Unmanaged(m) ==
  /\ ~ node[m].retired /\ node[m].bootstrapped
  /\ \/ node[m].gate = None
     \/ /\ node[m].gate # None
        /\ log[node[m].gate].phase = "disabled"
        /\ <<m, node[m].boot>> \notin log[node[m].gate].fenced

\* HeadPolicy.accept: a local request passes the guard ...
PassGuard(m) ==
  /\ Unmanaged(m)
  /\ ~ local[m].guarded
  /\ local' = [local EXCEPT ![m].guarded = TRUE]
  /\ UNCHANGED <<log, node>>

\* ... and answers a height later, if the floor is not fenced by then.
AnswerLocally(m, height) ==
  /\ local[m].guarded /\ ~ local[m].fenced
  /\ height > local[m].height
  /\ local' = [local EXCEPT ![m].height = height]
  /\ UNCHANGED <<log, node>>

-----------------------------------------------------------------------------
(* The runtime. *)

\* install of record s with revision r, on the runtime and on the local floor: an
\* older record is ignored; a disabled one is forgotten and releases the floor.
Installed(n, r, s) ==
  IF r < n.gate THEN n
  ELSE [n EXCEPT !.gate = r, !.snap = IF s.phase = "disabled" THEN None ELSE r]
\* Mutant: only the remembered height is restored.
ReleasedRemembered(f, s) == f.height
ReleasedHeight(f, s) == Larger(f.height, s.published.height)
Released(n, f, r, s) ==
  IF r >= n.gate /\ s.phase = "disabled" /\ f.fenced
  THEN [f EXCEPT !.fenced = FALSE, !.height = ReleasedHeight(f, s)]
  ELSE f

\* Mutant: the floor is read without a fence.
ReadFloor(f) == f
FencedFloor(f) == [f EXCEPT !.fenced = TRUE]

\* The record a runtime may act on.
Acts(m, n) ==
  /\ n.snap # None /\ ~ n.retired
  /\ Listed(log[n.snap], m)
Joins(m, n) == Acts(m, n) /\ log[n.snap].members[m] = Nil
Acknowledges(m, n) ==
  /\ Acts(m, n)
  /\ LET s == log[n.snap] IN
       s.members[m] = n.boot /\ Changing(s) /\ s.closed[m] # n.boot
Works(m, n, phase) ==
  /\ Acts(m, n)
  /\ log[n.snap].members[m] = n.boot /\ log[n.snap].phase = phase
  /\ n.task = NoTask

Become(m, n, f) ==
  /\ node' = [node EXCEPT ![m] = n]
  /\ local' = [local EXCEPT ![m] = f]

\* progress of runtime n with floor f: join synchronously, start a closure task,
\* start a probe task unless one runs or is throttled, or do nothing.  The block a
\* proposal will carry, the published one or any a provider reports, is checked
\* against the snapshot.
Progress(m, n, f) ==
  \/ /\ Joins(m, n)
     /\ LET s == log[n.snap]
            next == Join(s, m, n.boot, f.height)
            r == Len(log) + 1
        IN \/ /\ n.snap = Len(log) /\ JoinOK(s, m, n.boot)
              /\ Commit(next)
              /\ Become(m, Installed(n, r, next), Released(n, FencedFloor(f), r, next))
           \/ /\ n.snap # Len(log) \/ ~ JoinOK(s, m, n.boot)
              /\ Become(m, n, FencedFloor(f))
              /\ UNCHANGED log
  \/ /\ Acknowledges(m, n)
     /\ Become(m, [n EXCEPT !.ack = IF @ = None THEN n.snap ELSE @], f)
     /\ UNCHANGED log
  \/ /\ Works(m, n, "preparing")
     /\ Become(m, [n EXCEPT !.task = ReadyTask(log[n.snap].epoch, f.height)],
               FencedFloor(f))
     /\ UNCHANGED log
  \/ /\ Works(m, n, "active")
     /\ \E block \in Block :
          /\ ProposeOK(log[n.snap], m, n.boot, block)
          /\ Become(m, [n EXCEPT !.task = ProposeTask(block)], f)
     /\ UNCHANGED log
  \/ /\ ~ Joins(m, n) /\ ~ Acknowledges(m, n)
     /\ Become(m, n, f)
     /\ UNCHANGED log

Install(m, n, r) ==
  Progress(m, Installed(n, r, log[r]), Released(n, local[m], r, log[r]))

\* {:publication_committed, ...}, from a broadcast or the result of a task.
Deliver(m, r) == r # None /\ Install(m, node[m], r)

\* :reconcile reads the inventory.  The first read of a boot is delivered later and
\* bootstraps the gate; once bootstrapped, a late result is one more delivery.
Reconcile(m) ==
  LET n == node[m]
      r == Inventory(n.snap)
  IN
  IF n.bootstrapped /\ ~ n.retired /\ r # Nothing
  THEN Install(m, n, r)
  ELSE Progress(m,
         [n EXCEPT !.inventory =
            IF @ = None /\ ~ n.retired /\ ~ n.bootstrapped THEN r ELSE @],
         local[m])

InventoryResult(m) ==
  /\ node[m].inventory # None
  /\ LET n == [node[m] EXCEPT !.inventory = None, !.bootstrapped = TRUE] IN
       IF node[m].inventory = Nothing THEN Progress(m, n, local[m])
       ELSE Install(m, n, node[m].inventory)

\* ensure_configured_scopes creates the record of a scope without a gate row.
Ensure(m) ==
  /\ ~ Recorded /\ ~ node[m].retired
  /\ node[m].gate = None
  /\ log' = <<New(Roster)>>
  /\ UNCHANGED <<node, local>>

\* A task that ends in an error, or whose process dies, frees its slot.
TaskLost(m) ==
  /\ \/ /\ node[m].task # NoTask
        /\ node' = [node EXCEPT ![m].task = NoTask]
     \/ /\ node[m].ack # None
        /\ node' = [node EXCEPT ![m].ack = None]
     \/ /\ node[m].inventory # None
        /\ node' = [node EXCEPT ![m].inventory = None]
  /\ UNCHANGED <<log, local>>

\* The closure task compares its snapshot with the record.
Acknowledge(m) ==
  LET r == node[m].ack
      boot == node[m].boot
  IN
  /\ r # None
  /\ node' = [node EXCEPT ![m].ack = None]
  /\ IF r = Len(log) /\ ClosedOK(log[r], log[r].epoch, m, boot)
     THEN Commit(Closed(log[r], m, boot))
     ELSE UNCHANGED log
  /\ UNCHANGED local

\* publish_command: the journal applies a proposal to its current record.
ProposeBlock(m) ==
  LET block == node[m].task.block IN
  /\ node[m].task.kind = "propose"
  /\ node' = [node EXCEPT ![m].task = NoTask]
  /\ IF ProposeOK(Current, m, node[m].boot, block) THEN Commit(Propose(Current, block))
     ELSE UNCHANGED log
  /\ UNCHANGED local

\* A prepare task has seen the candidate and some hash at the published height,
\* and reports them with the fenced floor ...
ReportReady(m, anchor) ==
  LET task == node[m].task IN
  /\ task.kind = "ready"
  /\ node' = [node EXCEPT ![m].task = NoTask]
  /\ IF ReadyOK(Current, task.epoch, m, node[m].boot, Current.candidate.hash)
     THEN /\ anchor \in IF Current.published = NoBlock THEN {NoHash} ELSE Hashes
          /\ Commit(Ready(Current, m, anchor, task.floor))
     ELSE UNCHANGED log
  /\ UNCHANGED local

\* ... or aborts the epoch when the candidate has become stale.
AbortEpoch(m) ==
  LET task == node[m].task IN
  /\ task.kind = "ready"
  /\ node' = [node EXCEPT ![m].task = NoTask]
  /\ IF AbortOK(Current, task.epoch) THEN Commit(Abort(Current)) ELSE UNCHANGED log
  /\ UNCHANGED local

\* quiesce: the gate is retired at once, its boot is fenced later.
Retire(m) ==
  /\ ~ node[m].retired
  /\ node' = [node EXCEPT ![m].retired = TRUE]
  /\ UNCHANGED <<log, local>>
FenceSelf(m) ==
  /\ node[m].retired /\ Recorded
  /\ FenceOK(Current, m, node[m].boot)
  /\ Commit(Fence(Current, m, node[m].boot))
  /\ UNCHANGED <<node, local>>

\* The supervisor restarts the runtime and its tasks; gate and floor remain.
RestartRuntime(m) ==
  /\ node' = [node EXCEPT ![m] =
       [@ EXCEPT !.snap = None, !.task = NoTask, !.ack = None,
                 !.inventory = None]]
  /\ UNCHANGED <<log, local>>

\* The application dies and starts with a fresh boot.
Restart(m) ==
  /\ node[m].boot < MaxBoot
  /\ node' = [node EXCEPT ![m] = Started(@.boot + 1)]
  /\ local' = [local EXCEPT ![m] = Unfenced]
  /\ UNCHANGED log

-----------------------------------------------------------------------------
(* The operator's commands. *)

EnableScope ==
  Recorded /\ EnableOK(Current) /\ Commit(Enable(Current)) /\ UNCHANGED <<node, local>>
DisableScope ==
  Recorded /\ Commit(Disable(Current)) /\ UNCHANGED <<node, local>>
Enlist(m) ==
  /\ Recorded /\ AddMemberOK(Current, m)
  /\ Commit(AddMember(Current, m))
  /\ UNCHANGED <<node, local>>
Delist(m) ==
  /\ Recorded /\ RemoveMemberOK(Current, m)
  /\ Commit(RemoveMember(Current, m))
  /\ UNCHANGED <<node, local>>

\* record_external_fence: the named boot has stopped.
FenceExternally(m) ==
  /\ Recorded /\ Current.members[m] \in Boots \ {node[m].boot}
  /\ Commit(Fence(Current, m, Current.members[m]))
  /\ UNCHANGED <<node, local>>

-----------------------------------------------------------------------------
Steady ==
  \E m \in Members :
    \/ PassGuard(m)
    \/ \E height \in Heights : AnswerLocally(m, height)
    \/ \E r \in node[m].gate..Len(log) : Deliver(m, r)
    \/ Reconcile(m)
    \/ InventoryResult(m)
    \/ Ensure(m)
    \/ TaskLost(m)
    \/ Acknowledge(m)
    \/ ProposeBlock(m)
    \/ \E anchor \in Hashes \cup {NoHash} : ReportReady(m, anchor)
    \/ AbortEpoch(m)

Operate ==
  \/ EnableScope
  \/ DisableScope
  \/ \E m \in Members : Enlist(m) \/ Delist(m) \/ FenceExternally(m)

Fail ==
  \E m \in Members : Retire(m) \/ FenceSelf(m) \/ RestartRuntime(m) \/ Restart(m)

Next == Steady \/ Operate \/ Fail

Spec == Init /\ [][Next]_vars

-----------------------------------------------------------------------------
(* Properties. *)

\* Whatever a gate still serves is the block the journal publishes: no node
\* serves an older block once a newer one is published, whatever broadcasts it
\* missed (Gate.install before the durable closure acknowledgement).
ReadableIsPublished ==
  \A m \in Members : Readable(m) => log[node[m].gate].published = Current.published

\* Local answers and the published block line up, on the way in and on the way
\* out: a block is published above every local answer of its members, whose local
\* floors are fenced while it is served (join, prepare floors); and a node that
\* answers locally again never answers below what the fleet served through it
\* (release_local restores the published height).
LocalAnswersLineUp ==
  /\ Recorded =>
       \A m \in Members : Current.active[m] = node[m].boot =>
         local[m].fenced /\ local[m].height <= Current.published.height
  /\ \A m \in Members : Unmanaged(m) /\ ~ local[m].fenced =>
       \A r \in 1..node[m].gate :
         log[r].active[m] = node[m].boot => log[r].published.height <= local[m].height

\* One way of answering at a time: while a barrier runs, a boot recorded as closed
\* has no open gate (acknowledge_closure after install), and no node answers
\* locally while another serves a block that was published to both, since the
\* barrier of a disable has closed every gate before a floor is released
\* (complete_disable, release_local).
AnswersAreExclusive ==
  /\ Recorded /\ Changing(Current) =>
       \A m \in Members :
         Current.closed[m] = node[m].boot => ~ Readable(m) /\ ~ Unmanaged(m)
  /\ \A m, n \in Members :
       Readable(m) /\ log[node[m].gate].active[n] = node[n].boot => ~ Unmanaged(n)

\* The journal and the gates together are one fleet-wide register.
Fleet == INSTANCE FleetHead WITH
  cur     <- IF Recorded THEN Current.published ELSE NoBlock,
  offered <- {log[node[m].gate].published : m \in {n \in Members : Readable(n)}}

\* Reads anywhere return one block that only rises, and no read can see the old
\* block once the new one is published.
FleetRegister == Fleet!Spec

\* A closing barrier is completed by the runtimes' reconciliation alone, however
\* many broadcasts are lost (the bound leaves room for the acknowledgements).
BarrierCompletes ==
  \A r \in 1..MaxRevision :
    (Recorded /\ Current.phase = "closing" /\ Len(log) = r /\ r + 2 <= MaxRevision)
      ~> (Current.phase # "closing")

\* Reconciliation recovers a missed disable: a running node of a disabled scope
\* returns to local answers.
DisabledScopeReleased ==
  \A m \in Members :
    (Recorded /\ Current.phase = "disabled")
      ~> ((Unmanaged(m) /\ ~ local[m].fenced) \/ Current.phase # "disabled")

=============================================================================
